---------------------------- MODULE Spec2Model ----------------------------
(***************************************************************************)
(* Death Cap Saute: the restaurant actor (derived totals, table rolls,     *)
(* team management) and the restaurant sheet's event handlers.             *)
(***************************************************************************)
EXTENDS Integers, Sequences, FiniteSets, TLC

(***************************************************************************)
(* JavaScript values.  Every value is a tagged record, so that values of   *)
(* different types can be compared.                                        *)
(***************************************************************************)
Undef == [t |-> "undefined"]

Null == [t |-> "null"]

Num(n) == [t |-> "number", n |-> n]

Str(s) == [t |-> "string", s |-> s]

Bool(b) == [t |-> "boolean", b |-> b]

Obj(fields) == [t |-> "object", o |-> fields]

\* ToBoolean: undefined, null, 0, "" and false are falsy, all else truthy.
Truthy(v) ==
  CASE v.t = "undefined" -> FALSE
    [] v.t = "null" -> FALSE
    [] v.t = "number" -> v.n # 0
    [] v.t = "string" -> v.s # ""
    [] v.t = "boolean" -> v.b
    [] OTHER -> TRUE

\* a || d
OrElse(v, d) == IF Truthy(v) THEN v ELSE d

\* ToString of a primitive.
JsToString(v) ==
  CASE v.t = "undefined" -> "undefined"
    [] v.t = "null" -> "null"
    [] v.t = "number" -> ToString(v.n)
    [] v.t = "string" -> v.s
    [] v.t = "boolean" -> (IF v.b THEN "true" ELSE "false")
    [] OTHER -> "[object Object]"

\* ToNumber of a number, boolean or null (the operands that reach a numeric +).
JsToNumber(v) ==
  CASE v.t = "number" -> v.n
    [] v.t = "boolean" -> (IF v.b THEN 1 ELSE 0)
    [] OTHER -> 0

\* a + b: string concatenation as soon as one operand is a string (or an
\* object, whose primitive is a string), numeric addition otherwise.
JsPlus(a, b) ==
  IF a.t \in {"string", "object"} \/ b.t \in {"string", "object"}
  THEN Str(JsToString(a) \o JsToString(b))
  ELSE Num(JsToNumber(a) + JsToNumber(b))

\* obj[name] for an object held as a record of its own fields.
Field(obj, name) ==
  IF obj.t = "object" /\ name \in DOMAIN obj.o THEN obj.o[name] ELSE Undef

\* The object with obj.name = v.
SetProp(obj, name, v) ==
  Obj([x \in (DOMAIN obj.o) \cup {name} |-> IF x = name THEN v ELSE obj.o[x]])

(***************************************************************************)
(* Rule tables (DCS_CONFIG).                                               *)
(***************************************************************************)
NoPenalty == "null"

LocationOrder ==
  <<"saltyDesert", "kingsCourt", "onionSwamp", "meltedMountain", "shroompLair">>

LocationKeys == {LocationOrder[i] : i \in DOMAIN LocationOrder}

ShroompRow(r, req, theme) == [roll |-> r, requirement |-> req, dishTheme |-> theme]

HazardRow(r, nm, v, pen) == [roll |-> r, name |-> nm, value |-> v, penalty |-> pen]

WildRow(r, req, nm) == [roll |-> r, requirement |-> req, name |-> nm]

saltyDesert ==
  [label |-> "Salty Desert", order |-> 1, judge |-> "Billy Wishbones",
   hazardMin |-> 5, hazardMax |-> 8,
   shroompTable |-> <<
     ShroompRow(1, "All same number", "Comfort Classics"),
     ShroompRow(2, "All different numbers", "Desert Delights"),
     ShroompRow(3, "3 in a row", "Sippin' and Dippin'"),
     ShroompRow(4, "Pair of 6's", "Salt and Sand"),
     ShroompRow(5, "Total 12+", "Bone Broth"),
     ShroompRow(6, "No 1's", "Skeleton's Feast") >>,
   hazardTable |-> <<
     HazardRow(1, "Mirage of the Knife", 5, "Swap Presentation with Originality"),
     HazardRow(2, "Cactus Gnomes", 6, NoPenalty),
     HazardRow(3, "Salt Goblin", 6, "-1 to lowest Dish die"),
     HazardRow(4, "Pickling Pond", 7, NoPenalty),
     HazardRow(5, "Mirage of the Knife", 7, "Swap Presentation with Originality"),
     HazardRow(6, "Cactus Gnomes", 8, "-2 to any Dish die") >>]

kingsCourt ==
  [label |-> "King's Court", order |-> 2, judge |-> "Scrangly, the Rat King",
   hazardMin |-> 5, hazardMax |-> 9,
   shroompTable |-> <<
     ShroompRow(1, "Dish score 10+", "Doomsday Pepper"),
     ShroompRow(2, "No 2's or 5's", "Stir Fried Sorcery"),
     ShroompRow(3, "Pair in Dish dice", "Royal Feast"),
     ShroompRow(4, "All Dish dice odd", "Court Cuisine"),
     ShroompRow(5, "Presentation 5+", "Animatronic Appetizers"),
     ShroompRow(6, "All Dish dice even", "Mall Food Revival") >>,
   hazardTable |-> <<
     HazardRow(1, "Crumb Rats", 5, NoPenalty),
     HazardRow(2, "Acidic Critics", 6, "-1 to Flavor"),
     HazardRow(3, "Kitchen Cutlery Rain", 7, NoPenalty),
     HazardRow(4, "Acidic Critics", 7, "-2 to Flavor"),
     HazardRow(5, "The Tenderizer", 8, "-1 to all Dish dice"),
     HazardRow(6, "The Tenderizer", 9, "-2 to all Dish dice") >>]

onionSwamp ==
  [label |-> "Onion Swamp", order |-> 3, judge |-> "The Shallot Witch",
   hazardMin |-> 6, hazardMax |-> 10,
   shroompTable |-> <<
     ShroompRow(1, "Lowest die is 3+", "Swamp Stew"),
     ShroompRow(2, "Total Dish 11+", "Forbidden Flavors"),
     ShroompRow(3, "No matching dice", "Witch's Brew"),
     ShroompRow(4, "Originality 5+", "Black Market Bites"),
     ShroompRow(5, "3 of a kind in Dish", "Onion Layers"),
     ShroompRow(6, "Survive Hazard", "Gastromancy Special") >>,
   hazardTable |-> <<
     HazardRow(1, "Reeking Rapscallions", 6, NoPenalty),
     HazardRow(2, "The Searing Fumes", 6, "Lose 1 Mutation from Team"),
     HazardRow(3, "Onion Ogre", 7, NoPenalty),
     HazardRow(4, "The Bog of Beguiling", 8, "Re-roll each Dish die and put in same place"),
     HazardRow(5, "The Devil's Lettuce", 9, NoPenalty),
     HazardRow(6, "Fish of the Day", 10, "Score 0 in Category of your choice") >>]

meltedMountain ==
  [label |-> "Melted Mountain", order |-> 4, judge |-> "Gooble Froot",
   hazardMin |-> 6, hazardMax |-> 11,
   shroompTable |-> <<
     ShroompRow(1, "Flavor 6", "Fermented Fuzz"),
     ShroompRow(2, "Total Hazard 10+", "Mountain Melt"),
     ShroompRow(3, "All dice 3+", "Glowing Greens"),
     ShroompRow(4, "Dish total 13+", "Radiation Risotto"),
     ShroompRow(5, "No 4's", "Frosty Fusion"),
     ShroompRow(6, "Straight (1-2-3-4-5 or 2-3-4-5-6)", "Summit Surprise") >>,
   hazardTable |-> <<
     HazardRow(1, "Pepper Ghosts", 6, NoPenalty),
     HazardRow(2, "The Brothman", 7, "Roll die. If 6, +3 next dish. Else, -3 next dish"),
     HazardRow(3, "Boiling Ooze", 8, NoPenalty),
     HazardRow(4, "The Forbidden Pit", 9, "Score 2 in all Categories for Dish"),
     HazardRow(5, "Parasitic Frost", 10, "Roll die, subtract value from Dish, split as you wish"),
     HazardRow(6, "The Breathless Fog", 11, "Next Challenge, can't use Mutations") >>]

\* Variant: the last hazard row lies above hazardMax.
shroompLairSteep ==
  [label |-> "Shroomp Lair", order |-> 5, judge |-> "The Shroomp Lord",
   hazardMin |-> 7, hazardMax |-> 12,
   shroompTable |-> <<
     ShroompRow(1, "Dish Score 14+, all Evens", "Fungimentals"),
     ShroompRow(2, "All Dish dice same", "Mycelium Medley"),
     ShroompRow(3, "3 in a row, Total Dish score Even", "Chili Bones"),
     ShroompRow(4, "Survive Hazard, +2 to Hazard Roll", "Herbs and Vices"),
     ShroompRow(5, "6 in Presentation and Originality", "Doomed Legumes"),
     ShroompRow(6, "Dish total 15+", "Signature Dish") >>,
   hazardTable |-> <<
     HazardRow(1, "The Gelatinous Oubliette", 7, "Your Team dies & don't present Dish"),
     HazardRow(2, "Mind Spores", 8, "Swap 2 Dish Dice with 2 Hazard Dice"),
     HazardRow(3, "The Ceaseless Void", 9, "Score 1 in all Categories for Dish"),
     HazardRow(4, "Shroomp Cultist", 10, "Lose a Shroomp"),
     HazardRow(5, "Cast Iron Maiden", 11, NoPenalty),
     HazardRow(6, "The Whispering Sentinel", 13, "Give a Shroomp to another player") >>]

shroompLair ==
  [label |-> "Shroomp Lair", order |-> 5, judge |-> "The Shroomp Lord",
   hazardMin |-> 7, hazardMax |-> 12,
   shroompTable |-> <<
     ShroompRow(1, "Dish Score 14+, all Evens", "Fungimentals"),
     ShroompRow(2, "All Dish dice same", "Mycelium Medley"),
     ShroompRow(3, "3 in a row, Total Dish score Even", "Chili Bones"),
     ShroompRow(4, "Survive Hazard, +2 to Hazard Roll", "Herbs and Vices"),
     ShroompRow(5, "6 in Presentation and Originality", "Doomed Legumes"),
     ShroompRow(6, "Dish total 15+", "Signature Dish") >>,
   hazardTable |-> <<
     HazardRow(1, "The Gelatinous Oubliette", 7, "Your Team dies & don't present Dish"),
     HazardRow(2, "Mind Spores", 8, "Swap 2 Dish Dice with 2 Hazard Dice"),
     HazardRow(3, "The Ceaseless Void", 9, "Score 1 in all Categories for Dish"),
     HazardRow(4, "Shroomp Cultist", 10, "Lose a Shroomp"),
     HazardRow(5, "Cast Iron Maiden", 11, NoPenalty),
     HazardRow(6, "The Whispering Sentinel", 12, "Give a Shroomp to another player") >>]

\* Variant: the table without its row for face 6.
wildShroompTableShort ==
  << WildRow(1, "Most 1's among all your dishes", "Consolation Shroomp"),
     WildRow(2, "Most 6's among all your dishes", "Lucky Shroomp"),
     WildRow(3, "Most dead team members", "Sacrifice Shroomp"),
     WildRow(4, "Fewest total Shroomps so far", "Underdog Shroomp"),
     WildRow(5, "Highest single dish score", "Masterpiece Shroomp") >>

wildShroompTable ==
  << WildRow(1, "Most 1's among all your dishes", "Consolation Shroomp"),
     WildRow(2, "Most 6's among all your dishes", "Lucky Shroomp"),
     WildRow(3, "Most dead team members", "Sacrifice Shroomp"),
     WildRow(4, "Fewest total Shroomps so far", "Underdog Shroomp"),
     WildRow(5, "Highest single dish score", "Masterpiece Shroomp"),
     WildRow(6, "All team members alive", "Survivor Shroomp") >>

\* DCS_CONFIG.locations: the five own properties of the object literal.
locations ==
  [k \in LocationKeys |->
     CASE k = "saltyDesert" -> saltyDesert
       [] k = "kingsCourt" -> kingsCourt
       [] k = "onionSwamp" -> onionSwamp
       [] k = "meltedMountain" -> meltedMountain
       [] k = "shroompLair" -> shroompLair]

\* CONFIG.DCS = DCS_CONFIG: the object the handlers read the tables from.
DCS_CONFIG == [locations |-> locations, wildShroompTable |-> wildShroompTable]


(***************************************************************************)
(* State.                                                                  *)
(***************************************************************************)
VARIABLES
  type,         \* the actor's type
  challenges,   \* system.challenges: undefined, or the ordered own entries
  endGame,      \* system.endGame: undefined, or an object of bonus flags
  teamMembers,  \* system.teamMembers
  totals,       \* system.totals
  prep,         \* data preparation: "pending", "done" or "threw"
  updates,      \* the number of updates the host has applied to the actor
  h,            \* the event handlers in flight, one record per slot
  tabGroups,    \* the sheet's tabGroups: the tab set for each tab group
  DCS,          \* CONFIG.DCS: the rule tables the handlers look up
  tables,       \* game.tables: the roll table documents of the world
  sheet         \* the open sheet: its implementation and isEditable

vars == <<type, challenges, endGame, teamMembers, totals, prep, updates, h, tabGroups, DCS, tables, sheet>>

\* An object whose own properties are iterated: the ordered list of its entries.
Entries(seq) == [t |-> "object", e |-> seq]

Entry(k, v) == [key |-> k, value |-> v]

(***************************************************************************)
(* DCSActor._calculateTotals                                               *)
(***************************************************************************)
ZeroTotals ==
  [presentation |-> Num(0), flavor |-> Num(0), originality |-> Num(0),
   shroomps |-> Num(0)]

\* Variant: the loop body without the completed test.
AddChallengeAlways(t, challenge) ==
  [presentation |-> JsPlus(t.presentation, OrElse(Field(challenge, "presentation"), Num(0))),
   flavor |-> JsPlus(t.flavor, OrElse(Field(challenge, "flavor"), Num(0))),
   originality |-> JsPlus(t.originality, OrElse(Field(challenge, "originality"), Num(0))),
   shroomps |-> IF Truthy(Field(challenge, "earnedShroomp"))
                THEN JsPlus(t.shroomps, Num(1)) ELSE t.shroomps]

\* The loop body for one entry whose value is an object.
AddChallenge(t, challenge) ==
  IF Truthy(Field(challenge, "completed"))
  THEN [presentation |-> JsPlus(t.presentation, OrElse(Field(challenge, "presentation"), Num(0))),
        flavor |-> JsPlus(t.flavor, OrElse(Field(challenge, "flavor"), Num(0))),
        originality |-> JsPlus(t.originality, OrElse(Field(challenge, "originality"), Num(0))),
        shroomps |-> IF Truthy(Field(challenge, "earnedShroomp"))
                     THEN JsPlus(t.shroomps, Num(1)) ELSE t.shroomps]
  ELSE t

\* Reading a property of null or undefined raises a TypeError.
ThrowsOnRead(v) == v.t \in {"null", "undefined"}

RECURSIVE SumChallenges(_, _, _)
SumChallenges(entries, i, t) ==
  IF i > Len(entries) THEN [threw |-> FALSE, totals |-> t]
  ELSE IF ThrowsOnRead(entries[i].value) THEN [threw |-> TRUE, totals |-> t]
  ELSE SumChallenges(entries, i + 1, AddChallenge(t, entries[i].value))

BonusFlags == <<"presentationBonus", "flavorBonus", "originalityBonus", "wildShroomp">>

RECURSIVE AddBonuses(_, _, _)
AddBonuses(eg, i, t) ==
  IF i > Len(BonusFlags) THEN t
  ELSE AddBonuses(eg, i + 1,
         IF Truthy(Field(eg, BonusFlags[i]))
         THEN [t EXCEPT !.shroomps = JsPlus(@, Num(1))] ELSE t)

\* Variant: the wild shroomp is not counted.
AddEndGameWithoutWild(t, eg) == AddBonuses(SetProp(eg, "wildShroomp", Bool(FALSE)), 1, t)

\* The end-game bonus shroomps: one per truthy flag.
AddEndGame(t, eg) == AddBonuses(eg, 1, t)

\* Variant: without the "|| {}" defaults: Object.entries(undefined) raises.
calculateTotalsNoDefaults(systemData) ==
  IF ThrowsOnRead(systemData.challenges) \/ ThrowsOnRead(systemData.endGame)
  THEN [threw |-> TRUE, totals |-> ZeroTotals]
  ELSE LET sum == SumChallenges(systemData.challenges.e, 1, ZeroTotals)
       IN IF sum.threw THEN sum
          ELSE [threw |-> FALSE, totals |-> AddEndGame(sum.totals, systemData.endGame)]

\* The outcome of _calculateTotals(systemData): whether it threw, and the
\* totals it stored (when it did not throw).
calculateTotals(systemData) ==
  LET ch == OrElse(systemData.challenges, Entries(<<>>))
      eg == OrElse(systemData.endGame, Obj(<<>>))
      sum == SumChallenges(ch.e, 1, ZeroTotals)
  IN IF sum.threw THEN sum
     ELSE [threw |-> FALSE, totals |-> AddEndGame(sum.totals, eg)]

systemData == [challenges |-> challenges, endGame |-> endGame]

\* Variant: the totals are computed once and the stored value trusted after.
TotalsFromStored(sd, old, ty) ==
  IF old = Undef THEN calculateTotals(sd).totals ELSE old

\* system.totals after prepareDerivedData has run on the current data.
DerivedTotals(sd, old, ty) ==
  IF ty # "restaurant" THEN old
  ELSE IF calculateTotals(sd).threw THEN old
  ELSE calculateTotals(sd).totals

\* Whether prepareDerivedData raises on the current data.
DerivedThrows(sd, ty) == ty = "restaurant" /\ calculateTotals(sd).threw

\* DCSActor.prepareDerivedData, run by the host on the stored data.
prepareDerivedData ==
  /\ prep = "pending"
  /\ totals' = DerivedTotals(systemData, totals, type)
  /\ prep' = IF DerivedThrows(systemData, type) THEN "threw" ELSE "done"
  /\ UNCHANGED <<type, challenges, endGame, teamMembers, updates, h, tabGroups, DCS, tables, sheet>>


(***************************************************************************)
(* Team members and handler slots.                                         *)
(***************************************************************************)
teamMembersPerPlayer == 3

Member(nm, mut, al) == [name |-> nm, mutation |-> mut, alive |-> al]

\* The team of a new restaurant: three living chefs, indexed from 0.
NewTeam ==
  [i \in 0..(teamMembersPerPlayer - 1) |->
     Member(<<"Chef A", "Chef B", "Chef C">>[i + 1],
            <<"knifeFingers", "tongueSight", "soupGlands">>[i + 1], TRUE)]

Slots == {1, 2}

\* The sheet implementations: the Application V1 sheet
\* (restaurant-sheet.mjs) and the Application V2 sheet.
SheetVersions == {"v1", "v2"}

\* A sheet the user may edit.
EditableSheet == [version |-> "v2", isEditable |-> TRUE]

\* tabGroups = { primary: "team" }
NewTabGroups == [primary |-> "team"]

IdleHandler == [kind |-> "idle", pc |-> "idle"]

(***************************************************************************)
(* Data preparation on stored data of any shape: the stored challenges and *)
(* end-game flags are drawn from bounded sets, then prepareDerivedData     *)
(* runs.                                                                   *)
(***************************************************************************)
MaxScore == 4

Challenge(c, e, p, f, o) ==
  Obj([completed |-> c, earnedShroomp |-> e, presentation |-> p, flavor |-> f,
       originality |-> o])

FlagValues == {Bool(TRUE), Bool(FALSE), Undef}

ScoreValues == {Undef} \cup {Num(n) : n \in 0..MaxScore}

MalformedValues == {Null, Str("7")}

\* Records as the data model describes them: flags and numeric scores, any
\* of them possibly missing.
WellFormedRecords ==
  {Challenge(c, e, p, f, o) :
     c \in FlagValues, e \in {Bool(TRUE), Bool(FALSE)},
     p \in ScoreValues, f \in ScoreValues, o \in ScoreValues}

\* Records with a score that is no number.
MalformedRecords ==
  {Challenge(c, Bool(TRUE), m, Num(MaxScore), Undef) :
     c \in FlagValues, m \in MalformedValues}
  \cup {Challenge(c, Bool(FALSE), Num(1), m, m) :
     c \in FlagValues, m \in MalformedValues}

\* A second record with one score in all three categories.
UniformRecords ==
  {Challenge(Bool(c), Bool(e), v, v, v) :
     c \in BOOLEAN, e \in BOOLEAN, v \in {Undef, Num(MaxScore)}}

Absent == [t |-> "absent"]

\* The entries of system.challenges for the two stored values (Absent: no
\* such property).
ChallengeEntries(first, second) ==
  (IF first = Absent THEN <<>> ELSE <<Entry("saltyDesert", first)>>)
  \o (IF second = Absent THEN <<>> ELSE <<Entry("kingsCourt", second)>>)

StoredChallenges ==
  {Undef}
  \cup {Entries(ChallengeEntries(a, b)) :
          a \in WellFormedRecords \cup MalformedRecords \cup {Null, Absent},
          b \in UniformRecords \cup {Absent}}

\* Stored challenges whose records each carry one score in all categories.
UniformChallenges ==
  {Entries(ChallengeEntries(a, b)) :
     a \in UniformRecords \cup {Absent}, b \in UniformRecords \cup {Absent}}

EndGame(a, b, c, d) ==
  Obj([presentationBonus |-> Bool(a), flavorBonus |-> Bool(b),
       originalityBonus |-> Bool(c), wildShroomp |-> Bool(d)])

StoredEndGame ==
  {Undef, Obj(<<>>)}
  \cup {EndGame(a, b, c, d) : a \in BOOLEAN, b \in BOOLEAN, c \in BOOLEAN, d \in BOOLEAN}

FewEndGames == {Undef, Obj(<<>>), EndGame(FALSE, TRUE, FALSE, TRUE)}

CalcInit ==
  /\ \/ type = "restaurant" /\ challenges \in StoredChallenges /\ endGame \in FewEndGames
     \/ type \in {"restaurant", "npc"} /\ challenges \in UniformChallenges
          /\ endGame \in StoredEndGame
  /\ teamMembers = NewTeam
  /\ totals = Undef
  /\ prep = "pending"
  /\ updates = 0
  /\ h = [s \in Slots |-> IdleHandler]
  /\ tabGroups = NewTabGroups
  /\ DCS = DCS_CONFIG
  /\ tables = <<>>
  /\ sheet = EditableSheet

CalcNext == prepareDerivedData

CalcSpec == CalcInit /\ [][CalcNext]_vars


(***************************************************************************)
(* The host's persistence: update({path: value}) merges the value at the   *)
(* dotted path into the stored data, then prepares the derived data again. *)
(***************************************************************************)
MaxUpdates == 2

HasKey(es, k) == \E i \in DOMAIN es : es[i].key = k

\* Variant: the record is replaced by one holding the field alone.
MergeChallengeReplacing(ch, k, field, v) ==
  IF HasKey(ch.e, k)
  THEN Entries([i \in DOMAIN ch.e |->
                  IF ch.e[i].key = k
                  THEN Entry(k, SetProp(Obj(<<>>), field, v))
                  ELSE ch.e[i]])
  ELSE Entries(Append(ch.e, Entry(k, SetProp(Obj(<<>>), field, v))))

\* system.challenges after merging <k>.<field> = v: the record is created
\* when the key has none.
MergeChallenge(ch, k, field, v) ==
  IF HasKey(ch.e, k)
  THEN Entries([i \in DOMAIN ch.e |->
                  IF ch.e[i].key = k
                  THEN Entry(k, SetProp(ch.e[i].value, field, v))
                  ELSE ch.e[i]])
  ELSE Entries(Append(ch.e, Entry(k, SetProp(Obj(<<>>), field, v))))

\* Variant: the field is merged into the challenges as they were at first,
\* as a write of the whole collection from an old copy would.
MergedIntoOld(u) ==
  [challenges |-> IF u.path[2] = "challenges"
                  THEN MergeChallenge(
                         Entries([i \in DOMAIN challenges.e |->
                                    Entry(challenges.e[i].key,
                                          Obj([completed |-> Bool(FALSE),
                                               earnedShroomp |-> Bool(FALSE),
                                               presentation |-> Num(0), flavor |-> Num(0),
                                               originality |-> Num(0)]))]),
                         u.path[3], u.path[4], u.value)
                  ELSE challenges,
   endGame |-> IF u.path[2] = "endGame"
               THEN SetProp(endGame, u.path[3], u.value) ELSE endGame,
   teamMembers |-> IF u.path[2] = "teamMembers" THEN u.value ELSE teamMembers]

\* The stored data after the update u = [path, value].
Merged(u) ==
  [challenges |-> IF u.path[2] = "challenges"
                  THEN MergeChallenge(challenges, u.path[3], u.path[4], u.value)
                  ELSE challenges,
   endGame |-> IF u.path[2] = "endGame"
               THEN SetProp(endGame, u.path[3], u.value) ELSE endGame,
   teamMembers |-> IF u.path[2] = "teamMembers" THEN u.value ELSE teamMembers]

\* A handler that has just been dispatched: its arguments and locals in a,
\* and what it has done so far: the updates it issued (sent), the chat
\* messages it created (msgs), the notifications it raised (notes), its
\* return value (ret).
Handler(kind, pc, a) ==
  [kind |-> kind, pc |-> pc, a |-> a, sent |-> <<>>, msgs |-> <<>>,
   notes |-> <<>>, ret |-> Undef]

\* Variant: the update is issued but not awaited.
UpdateNotAwaited(hr, u, after) ==
  [hr EXCEPT !.pc = after, !.sent = Append(@, u), !.a = [hr.a EXCEPT !.after = after]]

\* await this.actor.update(u): the handler is suspended until the host has
\* applied the update; it resumes at pc `after`.
AwaitUpdate(hr, u, after) ==
  [hr EXCEPT !.pc = "update", !.sent = Append(@, u), !.a = [hr.a EXCEPT !.after = after]]

\* The host applies the pending update of slot s and runs prepareDerivedData.
ApplyUpdate(s) ==
  /\ h[s].pc = "update"
  /\ LET u == h[s].sent[Len(h[s].sent)]
         m == Merged(u)
         sd == [challenges |-> m.challenges, endGame |-> m.endGame]
     IN /\ challenges' = m.challenges
        /\ endGame' = m.endGame
        /\ teamMembers' = m.teamMembers
        /\ totals' = DerivedTotals(sd, totals, type)
        /\ prep' = IF DerivedThrows(sd, type) THEN "threw" ELSE "done"
  /\ updates' = updates + 1
  /\ h' = [h EXCEPT ![s].pc = h[s].a.after]
  /\ UNCHANGED <<type, tabGroups, DCS, tables, sheet>>

CanDispatch(s) == h[s].pc \in {"idle", "done", "threw", "failed"} /\ updates < MaxUpdates

ActorUnchanged == UNCHANGED <<type, challenges, endGame, teamMembers, totals, prep, updates>>

(***************************************************************************)
(* RestaurantSheet: checkbox toggles and form fields.                      *)
(***************************************************************************)
\* data-location of a checkbox: a location key, or undefined when the
\* attribute is missing (the path then reads "...challenges.undefined...").
LocationAttrs == LocationKeys \cup {"undefined"}

ToggleUpdate(location, field, checked) ==
  [path |-> <<"system", "challenges", location, field>>, value |-> Bool(checked)]

onToggleShroomp(s, location, checked) ==
  /\ CanDispatch(s)
  /\ h' = [h EXCEPT ![s] =
             AwaitUpdate(Handler("toggleShroomp", "start",
                                 [location |-> location, checked |-> checked, after |-> "done"]),
                         ToggleUpdate(location, "earnedShroomp", checked), "done")]
  /\ ActorUnchanged /\ UNCHANGED <<tabGroups, DCS, tables, sheet>>

onToggleChallengeComplete(s, location, checked) ==
  /\ CanDispatch(s)
  /\ h' = [h EXCEPT ![s] =
             AwaitUpdate(Handler("toggleComplete", "start",
                                 [location |-> location, checked |-> checked, after |-> "done"]),
                         ToggleUpdate(location, "completed", checked), "done")]
  /\ ActorUnchanged /\ UNCHANGED <<tabGroups, DCS, tables, sheet>>

SheetMaxScore == 1

ScoreFields == {"presentation", "flavor", "originality"}

\* form: {submitOnChange: true}: a changed score input or end-game checkbox
\* is submitted as an update of its field.
submitOnChange(s, path, value) ==
  /\ CanDispatch(s)
  /\ h' = [h EXCEPT ![s] =
             AwaitUpdate(Handler("submit", "start", [after |-> "done"]),
                         [path |-> path, value |-> value], "done")]
  /\ ActorUnchanged /\ UNCHANGED <<tabGroups, DCS, tables, sheet>>

FormInputs ==
  {[path |-> <<"system", "challenges", k, f>>, value |-> Num(n)] :
     k \in LocationKeys, f \in ScoreFields, n \in 0..SheetMaxScore}
  \cup {[path |-> <<"system", "endGame", BonusFlags[i]>>, value |-> Bool(b)] :
     i \in DOMAIN BonusFlags, b \in BOOLEAN}

(***************************************************************************)
(* RestaurantSheet kill / revive and DCSActor.killTeamMember.              *)
(***************************************************************************)
\* data-index of a kill or revive button; teamMembersPerPlayer is out of range.
IndexAttrs == 0..teamMembersPerPlayer

DialogAnswers == {"yes", "no", "closed"}

\* Variant: the answer is not tested.
ConfirmedAlways(answer) == TRUE

\* if (confirmed): the dialog resolves true on Yes, false on No, null when closed.
Confirmed(answer) == answer = "yes"

\* teamMembers[index] is a member.
HasMember(members, index) == index \in DOMAIN members

DeathMessage(member) ==
  [kind |-> "death", name |-> member.name, mutation |-> member.mutation]

\* The click: reading member.name of a missing member raises a TypeError
\* before the dialog opens.
onKillMember(s, index) ==
  /\ CanDispatch(s)
  /\ h' = [h EXCEPT ![s] =
             Handler("kill", IF HasMember(teamMembers, index) THEN "confirm" ELSE "threw",
                     [index |-> index, answer |-> "none", after |-> "none"])]
  /\ ActorUnchanged /\ UNCHANGED <<tabGroups, DCS, tables, sheet>>

\* Variant: the member is taken out of the team.
killTeamMemberRemoving(hr, index) ==
  IF HasMember(teamMembers, index)
  THEN AwaitUpdate(hr, [path |-> <<"system", "teamMembers">>,
                        value |-> [j \in (DOMAIN teamMembers) \ {index} |-> teamMembers[j]]],
                   "chat")
  ELSE [hr EXCEPT !.pc = "done"]

\* Variant: the update is built from a fresh team instead of the clone.
killTeamMemberFromNew(hr, index) ==
  IF HasMember(NewTeam, index)
  THEN AwaitUpdate(hr, [path |-> <<"system", "teamMembers">>,
                        value |-> [NewTeam EXCEPT ![index].alive = FALSE]], "chat")
  ELSE [hr EXCEPT !.pc = "done"]

\* The first part of DCSActor.killTeamMember(index), up to its update:
\* the clone with the member marked dead, or no update at all.
killTeamMember(hr, index) ==
  LET clone == teamMembers IN
  IF HasMember(clone, index)
  THEN AwaitUpdate(hr, [path |-> <<"system", "teamMembers">>,
                        value |-> [clone EXCEPT ![index].alive = FALSE]], "chat")
  ELSE [hr EXCEPT !.pc = "done"]

\* actor.killTeamMember(index) called directly (a macro, another module).
callKillTeamMember(s, index) ==
  /\ CanDispatch(s)
  /\ h' = [h EXCEPT ![s] =
             killTeamMember(Handler("killTeamMember", "start",
                                    [index |-> index, answer |-> "direct", after |-> "none"]),
                            index)]
  /\ ActorUnchanged /\ UNCHANGED <<tabGroups, DCS, tables, sheet>>

\* The dialog resolves.
confirmKill(s, answer) ==
  /\ h[s].kind = "kill" /\ h[s].pc = "confirm"
  /\ LET hr == [h[s] EXCEPT !.a.answer = answer]
     IN h' = [h EXCEPT ![s] =
                IF Confirmed(answer) THEN killTeamMember(hr, hr.a.index)
                ELSE [hr EXCEPT !.pc = "done"]]
  /\ ActorUnchanged /\ UNCHANGED <<tabGroups, DCS, tables, sheet>>

\* killTeamMember after its update: the death announcement.
announceDeath(s) ==
  /\ h[s].kind \in {"kill", "killTeamMember"} /\ h[s].pc = "chat"
  /\ LET u == h[s].sent[Len(h[s].sent)]
     IN h' = [h EXCEPT ![s].msgs = Append(@, DeathMessage(u.value[h[s].a.index])),
                       ![s].pc = "done"]
  /\ ActorUnchanged /\ UNCHANGED <<tabGroups, DCS, tables, sheet>>

\* Variant: the member is not tested before the write.
onReviveMemberUnguarded(s, index) ==
  /\ CanDispatch(s)
  /\ h' = [h EXCEPT ![s] =
             AwaitUpdate(Handler("revive", "start", [index |-> index, after |-> "none"]),
                         [path |-> <<"system", "teamMembers">>,
                          value |-> [j \in DOMAIN teamMembers |->
                                       IF j = index THEN [teamMembers[j] EXCEPT !.alive = TRUE]
                                       ELSE teamMembers[j]]], "done")]
  /\ ActorUnchanged /\ UNCHANGED <<tabGroups, DCS, tables, sheet>>

\* RestaurantSheet._onReviveMember / #onReviveMember.
onReviveMember(s, index) ==
  /\ CanDispatch(s)
  /\ LET hr == Handler("revive", "start", [index |-> index, after |-> "none"])
         clone == teamMembers
     IN h' = [h EXCEPT ![s] =
                IF HasMember(clone, index)
                THEN AwaitUpdate(hr, [path |-> <<"system", "teamMembers">>,
                                      value |-> [clone EXCEPT ![index].alive = TRUE]], "done")
                ELSE [hr EXCEPT !.pc = "done"]]
  /\ ActorUnchanged /\ UNCHANGED <<tabGroups, DCS, tables, sheet>>

(***************************************************************************)
(* A restaurant and its sheet, one event at a time.                        *)
(***************************************************************************)
NewChallenge == Challenge(Bool(FALSE), Bool(FALSE), Num(0), Num(0), Num(0))

NewChallenges ==
  Entries([i \in DOMAIN LocationOrder |-> Entry(LocationOrder[i], NewChallenge)])

NewEndGame == EndGame(FALSE, FALSE, FALSE, FALSE)

Init ==
  /\ type = "restaurant"
  /\ challenges = NewChallenges
  /\ endGame = NewEndGame
  /\ teamMembers = NewTeam
  /\ totals = DerivedTotals([challenges |-> NewChallenges, endGame |-> NewEndGame],
                            Undef, "restaurant")
  /\ prep = "done"
  /\ updates = 0
  /\ h = [s \in Slots |-> IdleHandler]
  /\ tabGroups = NewTabGroups
  /\ DCS = DCS_CONFIG
  /\ tables = <<>>
  /\ sheet = EditableSheet

Next ==
  \/ \E location \in LocationAttrs, checked \in BOOLEAN : onToggleShroomp(1, location, checked)
  \/ \E location \in LocationAttrs, checked \in BOOLEAN :
       onToggleChallengeComplete(1, location, checked)
  \/ \E f \in FormInputs : submitOnChange(1, f.path, f.value)
  \/ \E index \in IndexAttrs : onKillMember(1, index)
  \/ \E index \in IndexAttrs : callKillTeamMember(1, index)
  \/ \E answer \in DialogAnswers : confirmKill(1, answer)
  \/ announceDeath(1)
  \/ \E index \in IndexAttrs : onReviveMember(1, index)
  \/ ApplyUpdate(1)

Spec == Init /\ [][Next]_vars

(***************************************************************************)
(* RestaurantSheet tabs: _onTabClick, and _prepareTabs when the sheet      *)
(* prepares its context.                                                   *)
(***************************************************************************)
TabIds == <<"team", "challenges", "totals">>

TabLabels == <<"Team", "Challenges", "Totals">>

\* data-tab of the tab items: the tabs the context offers.
TabNames == {TabIds[i] : i \in DOMAIN TabIds}

\* data-group of the tab bar; missing, the handler takes 'primary'.
GroupAttrs == {"primary", "undefined"}

Tab(i, active) ==
  [id |-> TabIds[i], group |-> "primary", label |-> TabLabels[i],
   active |-> active, cssClass |-> IF active THEN "active" ELSE ""]

\* Variant: the first tab is marked active whatever the group holds.
prepareTabsFirst(groups) == [i \in DOMAIN TabIds |-> Tab(i, i = 1)]

\* _prepareTabs: the tab named by tabGroups.primary (or "team") is marked.
prepareTabs(groups) ==
  LET activeTab == IF groups.primary = "" THEN "team" ELSE groups.primary
  IN [i \in DOMAIN TabIds |-> Tab(i, TabIds[i] = activeTab)]

SheetIdle(s) == h[s].pc \in {"idle", "done", "threw", "failed"}

\* _onTabClick: the clicked tab is stored for its group; the actor is not
\* touched and nothing is awaited.
onTabClick(s, tabName, groupAttr) ==
  /\ SheetIdle(s)
  /\ LET group == IF groupAttr = "undefined" THEN "primary" ELSE groupAttr
     IN /\ tabGroups' = [tabGroups EXCEPT ![group] = tabName]
        /\ h' = [h EXCEPT ![s] =
                   Handler("tabClick", "done", [tab |-> tabName, group |-> group])]
  /\ ActorUnchanged /\ UNCHANGED <<DCS, tables, sheet>>

\* The order of the challenge cards.
locationOrder ==
  <<"saltyDesert", "kingsCourt", "onionSwamp", "meltedMountain", "shroompLair">>

\* challenges[key]: the stored record, or undefined.
RecordAt(ch, key) ==
  IF HasKey(ch.e, key)
  THEN ch.e[CHOOSE i \in DOMAIN ch.e : ch.e[i].key = key].value
  ELSE Undef

\* The own properties the spread ...data copies.
OwnFields(data) == IF data.t = "object" THEN DOMAIN data.o ELSE {}

ConfigFields == {"key", "label", "order", "hazardMin", "hazardMax", "judge"}

TotalFields == {"dishTotal", "hazardTotal"}

\* Variant: the dish total counts for completed challenges only.
ChallengeViewCompleted(key, ch) ==
  LET config == DCS.locations[key]
      data == OrElse(RecordAt(ch, key), Obj(<<>>))
  IN Obj([f \in ConfigFields \cup OwnFields(data) \cup TotalFields |->
            CASE f = "dishTotal" ->
                   IF Truthy(Field(data, "completed"))
                   THEN JsPlus(JsPlus(OrElse(Field(data, "presentation"), Num(0)),
                                      OrElse(Field(data, "flavor"), Num(0))),
                               OrElse(Field(data, "originality"), Num(0)))
                   ELSE Num(0)
              [] f = "hazardTotal" ->
                   JsPlus(OrElse(Field(data, "hazard1"), Num(0)),
                          OrElse(Field(data, "hazard2"), Num(0)))
              [] f \in OwnFields(data) -> data.o[f]
              [] f = "key" -> Str(key)
              [] f = "label" -> Str(config.label)
              [] f = "order" -> Num(config.order)
              [] f = "hazardMin" -> Num(config.hazardMin)
              [] f = "hazardMax" -> Num(config.hazardMax)
              [] f = "judge" -> Str(config.judge)])

\* One challenge card: the location's configuration, the stored record
\* spread over it, and the two totals on top.
ChallengeView(key, ch) ==
  LET config == DCS.locations[key]
      data == OrElse(RecordAt(ch, key), Obj(<<>>))
  IN Obj([f \in ConfigFields \cup OwnFields(data) \cup TotalFields |->
            CASE f = "dishTotal" ->
                   JsPlus(JsPlus(OrElse(Field(data, "presentation"), Num(0)),
                                 OrElse(Field(data, "flavor"), Num(0))),
                          OrElse(Field(data, "originality"), Num(0)))
              [] f = "hazardTotal" ->
                   JsPlus(OrElse(Field(data, "hazard1"), Num(0)),
                          OrElse(Field(data, "hazard2"), Num(0)))
              [] f \in OwnFields(data) -> data.o[f]
              [] f = "key" -> Str(key)
              [] f = "label" -> Str(config.label)
              [] f = "order" -> Num(config.order)
              [] f = "hazardMin" -> Num(config.hazardMin)
              [] f = "hazardMax" -> Num(config.hazardMax)
              [] f = "judge" -> Str(config.judge)])

\* _prepareChallengeData: one card per location of locationOrder.
prepareChallengeData(ch) ==
  [i \in DOMAIN locationOrder |-> ChallengeView(locationOrder[i], ch)]

\* The forms system.teamMembers is stored in: an array, or an object keyed
\* by index.
ArrayOf(team) ==
  [t |-> "array", items |-> [i \in 1..Cardinality(DOMAIN team) |-> team[i - 1]]]

ObjectOf(team) ==
  Entries([i \in 1..Cardinality(DOMAIN team) |-> Entry(ToString(i - 1), team[i - 1])])

\* Variant: only an array is taken, anything else is an empty team.
teamMembersArrayOnly(members) ==
  IF ~Truthy(members) THEN <<>>
  ELSE IF members.t = "array" THEN members.items
  ELSE <<>>

\* _teamMembersArray: the array itself, the values of an object, or no
\* members when nothing is stored.
teamMembersArray(members) ==
  IF ~Truthy(members) THEN <<>>
  ELSE IF members.t = "array" THEN members.items
  ELSE [i \in DOMAIN members.e |-> members.e[i].value]

aliveTeamMembers(members) ==
  LET arr == teamMembersArray(members)
  IN Cardinality({i \in DOMAIN arr : arr[i].alive})

deadTeamMembers(members) ==
  LET arr == teamMembersArray(members)
  IN Cardinality({i \in DOMAIN arr : ~arr[i].alive})

isEliminated(members) == aliveTeamMembers(members) = 0

\* The three getters as the context reads them.
TeamCounts(members) ==
  [aliveCount |-> aliveTeamMembers(members),
   deadCount |-> deadTeamMembers(members),
   isEliminated |-> isEliminated(members)]

\* _prepareContext: the view model of a render: the challenge cards, the
\* team counts and the tabs.  Reading a card of challenges that are not
\* stored at all raises.
prepareContext(s) ==
  /\ SheetIdle(s)
  /\ h' = [h EXCEPT ![s] =
             IF ThrowsOnRead(challenges)
             THEN Handler("render", "threw", <<>>)
             ELSE [Handler("render", "done", <<>>) EXCEPT
                     !.ret = [challengeData |-> prepareChallengeData(challenges),
                              aliveCount |-> TeamCounts(ArrayOf(teamMembers)).aliveCount,
                              deadCount |-> TeamCounts(ArrayOf(teamMembers)).deadCount,
                              isEliminated |-> TeamCounts(ArrayOf(teamMembers)).isEliminated,
                              tabs |-> prepareTabs(tabGroups)]]]
  /\ ActorUnchanged /\ UNCHANGED <<tabGroups, DCS, tables, sheet>>

\* Stored records for the challenge cards: scores and hazard dice, any of
\* them possibly missing, notes, either completed flag.
WithoutMissing(fields) ==
  Obj([f \in {x \in DOMAIN fields : fields[x] # Undef} |-> fields[f]])

CardRecords ==
  {WithoutMissing([completed |-> Bool(c), presentation |-> p, flavor |-> f,
                   originality |-> o, hazard1 |-> h1, hazard2 |-> h2,
                   notes |-> Str("burnt")]) :
     c \in BOOLEAN, p \in {Undef, Num(0), Num(MaxScore)}, f \in {Undef, Num(1)},
     o \in {Undef, Num(MaxScore)}, h1 \in {Undef, Num(MaxScore)}, h2 \in {Undef, Num(1)}}

\* A record under a key that is no location, as a toggle without its
\* data-location leaves it.
StrayEntries == {<<>>, <<Entry("undefined", Obj([completed |-> Bool(TRUE)]))>>}

CardChallenges ==
  {Entries(ChallengeEntries(a, b) \o stray) :
     a \in CardRecords \cup {Null, Absent},
     b \in {Absent, Challenge(Bool(TRUE), Bool(TRUE), Num(1), Num(1), Num(1))},
     stray \in StrayEntries}

PresentInit ==
  /\ type = "restaurant"
  /\ challenges \in CardChallenges
  /\ endGame = NewEndGame
  /\ teamMembers = NewTeam
  /\ totals = DerivedTotals(systemData, Undef, "restaurant")
  /\ prep = IF DerivedThrows(systemData, "restaurant") THEN "threw" ELSE "done"
  /\ updates = 0
  /\ h = [s \in Slots |-> IdleHandler]
  /\ tabGroups = NewTabGroups
  /\ DCS = DCS_CONFIG
  /\ tables = <<>>
  /\ sheet = EditableSheet

PresentNext == prepareContext(1)

PresentSpec == PresentInit /\ [][PresentNext]_vars

\* Teams of up to teamMembersPerPlayer members, each alive or dead.
Teams ==
  UNION {{[i \in 0..(n - 1) |-> [NewTeam[i] EXCEPT !.alive = alive[i]]] :
            alive \in [0..(n - 1) -> BOOLEAN]} : n \in 0..teamMembersPerPlayer}

\* What system.teamMembers may hold: a team as an array, a team as an
\* object keyed by index, or nothing.
StoredTeams == {ArrayOf(team) : team \in Teams} \cup {ObjectOf(team) : team \in Teams} \cup {Undef}

\* The sheet reads the three getters of the actor.
readTeamCounts(s) ==
  /\ SheetIdle(s)
  /\ h' = [h EXCEPT ![s] =
             [Handler("teamCounts", "done", <<>>) EXCEPT !.ret = TeamCounts(teamMembers)]]
  /\ ActorUnchanged /\ UNCHANGED <<tabGroups, DCS, tables, sheet>>

TeamInit ==
  /\ type = "restaurant"
  /\ challenges = NewChallenges
  /\ endGame = NewEndGame
  /\ teamMembers \in StoredTeams
  /\ totals = DerivedTotals(systemData, Undef, "restaurant")
  /\ prep = "done"
  /\ updates = 0
  /\ h = [s \in Slots |-> IdleHandler]
  /\ tabGroups = NewTabGroups
  /\ DCS = DCS_CONFIG
  /\ tables = <<>>
  /\ sheet = EditableSheet

TeamNext ==
  \/ readTeamCounts(1)
  \/ \E tabName \in TabNames : onTabClick(1, tabName, "primary")

TeamSpec == TeamInit /\ [][TeamNext]_vars

TabNext ==
  \/ \E tabName \in TabNames, groupAttr \in GroupAttrs : onTabClick(1, tabName, groupAttr)
  \/ prepareContext(1)
  \/ \E location \in LocationAttrs, checked \in BOOLEAN : onToggleShroomp(1, location, checked)
  \/ \E index \in IndexAttrs : onReviveMember(1, index)
  \/ \E index \in IndexAttrs : callKillTeamMember(1, index)
  \/ announceDeath(1)
  \/ ApplyUpdate(1)

TabSpec == Init /\ [][TabNext]_vars

(***************************************************************************)
(* A kill followed by the revive of the same member, from any team state,  *)
(* with the caller's copy of the data taken before the kill in slot 2.     *)
(***************************************************************************)
TeamStates ==
  {[i \in DOMAIN NewTeam |-> [NewTeam[i] EXCEPT !.alive = alive[i]]] :
     alive \in [DOMAIN NewTeam -> BOOLEAN]}

PlayedChallenges ==
  MergeChallenge(MergeChallenge(NewChallenges, "saltyDesert", "completed", Bool(TRUE)),
                 "saltyDesert", "flavor", Num(MaxScore))

\* const before = actor.toObject(): the caller's copy of the stored data.
Snapshot(team, ch, eg) ==
  [kind |-> "caller", pc |-> "waiting",
   a |-> [before |-> [teamMembers |-> team, challenges |-> ch, endGame |-> eg]]]

RoundTripInit ==
  /\ type = "restaurant"
  /\ teamMembers \in TeamStates
  /\ challenges \in {NewChallenges, PlayedChallenges}
  /\ endGame \in {NewEndGame, EndGame(FALSE, TRUE, FALSE, TRUE)}
  /\ totals = DerivedTotals(systemData, Undef, "restaurant")
  /\ prep = "done"
  /\ updates = 0
  /\ h = [s \in Slots |-> IF s = 1 THEN IdleHandler
                          ELSE Snapshot(teamMembers, challenges, endGame)]
  /\ tabGroups = NewTabGroups
  /\ DCS = DCS_CONFIG
  /\ tables = <<>>
  /\ sheet = EditableSheet

RoundTripNext ==
  \/ \E index \in IndexAttrs : h[1].pc = "idle" /\ callKillTeamMember(1, index)
  \/ ApplyUpdate(1)
  \/ announceDeath(1)
  \/ /\ h[1].kind = "killTeamMember" /\ h[1].pc = "done"
     /\ onReviveMember(1, h[1].a.index)

RoundTripSpec == RoundTripInit /\ [][RoundTripNext]_vars

(***************************************************************************)
(* Two team operations started before any write has been applied: each of  *)
(* the two callers runs one kill or revive.                                *)
(***************************************************************************)
\* The operation of slot s starts while the stored team is still the one
\* both callers see.
BeforeFirstWrite(s) == h[s].pc = "idle" /\ updates = 0

TeamRaceInit ==
  /\ type = "restaurant"
  /\ teamMembers \in TeamStates
  /\ challenges = NewChallenges
  /\ endGame = NewEndGame
  /\ totals = DerivedTotals(systemData, Undef, "restaurant")
  /\ prep = "done"
  /\ updates = 0
  /\ h = [s \in Slots |-> IdleHandler]
  /\ tabGroups = NewTabGroups
  /\ DCS = DCS_CONFIG
  /\ tables = <<>>
  /\ sheet = EditableSheet

TeamRaceNext ==
  \E s \in Slots :
    \/ \E index \in IndexAttrs : BeforeFirstWrite(s) /\ onKillMember(s, index)
    \/ \E index \in IndexAttrs : BeforeFirstWrite(s) /\ callKillTeamMember(s, index)
    \/ \E index \in IndexAttrs : BeforeFirstWrite(s) /\ onReviveMember(s, index)
    \/ \E answer \in DialogAnswers : confirmKill(s, answer)
    \/ ApplyUpdate(s)
    \/ announceDeath(s)

TeamRaceSpec == TeamRaceInit /\ [][TeamRaceNext]_vars

(***************************************************************************)
(* Two checkbox toggles that may overlap: each of the two callers toggles  *)
(* one checkbox, and the host applies the writes in either order.          *)
(***************************************************************************)
ToggleRaceNext ==
  \E s \in Slots :
    \/ \E location \in LocationAttrs, checked \in BOOLEAN :
         h[s].pc = "idle" /\ onToggleShroomp(s, location, checked)
    \/ \E location \in LocationAttrs, checked \in BOOLEAN :
         h[s].pc = "idle" /\ onToggleChallengeComplete(s, location, checked)
    \/ ApplyUpdate(s)

ToggleRaceSpec == Init /\ [][ToggleRaceNext]_vars

(***************************************************************************)
(* A restaurant in play and its sheet: the sheet's events, and the render  *)
(* that follows them.                                                      *)
(***************************************************************************)
PlayInit ==
  /\ type = "restaurant"
  /\ challenges \in {NewChallenges, PlayedChallenges}
  /\ endGame = NewEndGame
  /\ teamMembers = NewTeam
  /\ totals = DerivedTotals(systemData, Undef, "restaurant")
  /\ prep = "done"
  /\ updates = 0
  /\ h = [s \in Slots |-> IdleHandler]
  /\ tabGroups = NewTabGroups
  /\ DCS = DCS_CONFIG
  /\ tables = <<>>
  /\ sheet = EditableSheet

PlayNext ==
  \/ Next
  \/ prepareContext(1)

PlaySpec == PlayInit /\ [][PlayNext]_vars

(***************************************************************************)
(* DCSActor table rolls.                                                   *)
(***************************************************************************)
DieSides == 6

DieFaces == 1..DieSides

\* Members of Object.prototype, which the locations object literal inherits.
InheritedKeys == {"constructor"}

\* CONFIG.DCS.locations[locationKey]: an own property, an inherited member,
\* or undefined.
LocationAt(locationKey) ==
  IF locationKey \in LocationKeys THEN Obj(DCS.locations[locationKey])
  ELSE IF locationKey \in InheritedKeys THEN [t |-> "function"]
  ELSE Undef

\* Variant: the row after the one rolled.
FindRollOffByOne(table, result) ==
  LET hits == {i \in DOMAIN table : table[i].roll = (result % DieSides) + 1}
  IN IF hits = {} THEN Undef
     ELSE Obj(table[CHOOSE i \in hits : \A j \in hits : i <= j])

\* table.find(e => e.roll === result): the first matching row, or undefined.
FindRoll(table, result) ==
  LET hits == {i \in DOMAIN table : table[i].roll = result}
  IN IF hits = {} THEN Undef
     ELSE Obj(table[CHOOSE i \in hits : \A j \in hits : i <= j])

ErrorNote(locationKey) == [level |-> "error", text |-> "Unknown location: " \o locationKey]

\* The lookup and early return that open rollShroompTable and rollHazardTable.
StartTableRoll(hr, locationKey) ==
  IF ~Truthy(LocationAt(locationKey))
  THEN [hr EXCEPT !.notes = Append(@, ErrorNote(locationKey)), !.ret = Null, !.pc = "done"]
  ELSE [hr EXCEPT !.pc = "evaluate"]

\* The keys a caller may pass: the locations, the text of a missing
\* data-location attribute, and an inherited member's name.
RollKeys == LocationKeys \cup {"undefined"} \cup InheritedKeys

rollShroompTable(s, locationKey) ==
  /\ CanDispatch(s)
  /\ h' = [h EXCEPT ![s] =
             StartTableRoll(Handler("rollShroompTable", "start",
                                    [locationKey |-> locationKey]), locationKey)]
  /\ ActorUnchanged /\ UNCHANGED <<tabGroups, DCS, tables, sheet>>

MaxBonus == 1

\* The bonus argument: omitted, or an integer.
BonusArgs == {Undef} \cup {Num(n) : n \in (0 - MaxBonus)..MaxBonus}

\* bonus = 0 as the parameter's default.
DefaultBonus(arg) == IF arg = Undef THEN 0 ELSE arg.n

rollHazardTable(s, locationKey, bonusArg) ==
  /\ CanDispatch(s)
  /\ h' = [h EXCEPT ![s] =
             StartTableRoll(Handler("rollHazardTable", "start",
                                    [locationKey |-> locationKey, bonusArg |-> bonusArg,
                                     bonus |-> DefaultBonus(bonusArg)]), locationKey)]
  /\ ActorUnchanged /\ UNCHANGED <<tabGroups, DCS, tables, sheet>>

rollWildShroomp(s) ==
  /\ CanDispatch(s)
  /\ h' = [h EXCEPT ![s] = [Handler("rollWildShroomp", "start", <<>>) EXCEPT !.pc = "evaluate"]]
  /\ ActorUnchanged /\ UNCHANGED <<tabGroups, DCS, tables, sheet>>

Roll(formula, total) == [formula |-> formula, total |-> total]

\* What the handler does with the looked-up row: reading a property of a
\* missing row raises; otherwise the message is built and sent.
WithEntry(hr, roll, tableEntry, message, ret) ==
  IF ThrowsOnRead(tableEntry)
  THEN [hr EXCEPT !.pc = "threw", !.a = [roll |-> roll] @@ hr.a]
  ELSE [hr EXCEPT !.pc = "chat",
                  !.a = [roll |-> roll, tableEntry |-> tableEntry,
                         message |-> message, ret |-> ret] @@ hr.a]

\* location.<table>.find(...) on a location without that table raises.
Threw(hr, roll) == [hr EXCEPT !.pc = "threw", !.a = [roll |-> roll] @@ hr.a]

afterShroompRoll(hr, roll) ==
  LET location == LocationAt(hr.a.locationKey) IN
  IF location.t # "object" THEN Threw(hr, roll)
  ELSE LET tableEntry == FindRoll(location.o.shroompTable, roll.total)
       IN WithEntry(hr, roll, tableEntry,
            [kind |-> "shroomp-table", label |-> location.o.label, result |-> roll.total,
             requirement |-> Field(tableEntry, "requirement"),
             dishTheme |-> Field(tableEntry, "dishTheme"), rolls |-> <<roll>>],
            tableEntry)

\* Variant: a negative bonus is ignored.
effectiveValueFloored(tableEntry, bonus) ==
  tableEntry.o.value + (IF bonus < 0 THEN 0 ELSE bonus)

effectiveValue(tableEntry, bonus) == tableEntry.o.value + bonus

afterHazardRoll(hr, roll) ==
  LET location == LocationAt(hr.a.locationKey) IN
  IF location.t # "object" THEN Threw(hr, roll)
  ELSE LET tableEntry == FindRoll(location.o.hazardTable, roll.total)
           bonus == hr.a.bonus
       IN IF ThrowsOnRead(tableEntry) THEN Threw(hr, roll)
          ELSE LET ev == effectiveValue(tableEntry, bonus)
               IN WithEntry(hr, roll, tableEntry,
                    [kind |-> "hazard-table", label |-> location.o.label,
                     result |-> roll.total, name |-> tableEntry.o.name,
                     value |-> tableEntry.o.value,
                     bonusShown |-> IF bonus # 0 THEN <<bonus, ev>> ELSE <<>>,
                     penaltyShown |-> IF tableEntry.o.penalty # NoPenalty
                                      THEN <<tableEntry.o.penalty>> ELSE <<>>,
                     mustBeat |-> ev, rolls |-> <<roll>>],
                    Obj([effectiveValue |-> ev] @@ tableEntry.o))

\* Variant: effectiveValue is written into the looked-up row itself.
HazardRowWritten(row, ev) == [effectiveValue |-> ev] @@ row

\* The looked-up row as rollHazardTable leaves it in the table: the result
\* is a copy ({...tableEntry, effectiveValue}); the row is not written.
HazardRowAfter(row, ev) == row

\* CONFIG.DCS after a hazard roll of `total` at the location.
RulesAfterHazardRoll(dcs, locationKey, total, bonus) ==
  LET table == dcs.locations[locationKey].hazardTable
  IN [dcs EXCEPT !.locations[locationKey].hazardTable =
        [i \in DOMAIN table |->
           IF Obj(table[i]) = FindRoll(table, total)
           THEN HazardRowAfter(table[i], effectiveValue(Obj(table[i]), bonus))
           ELSE table[i]]]

afterWildRoll(hr, roll) ==
  LET tableEntry == FindRoll(DCS.wildShroompTable, roll.total)
  IN WithEntry(hr, roll, tableEntry,
       [kind |-> "wild-shroomp", result |-> roll.total,
        name |-> Field(tableEntry, "name"),
        requirement |-> Field(tableEntry, "requirement"), rolls |-> <<roll>>],
       tableEntry)

\* rollSingleDie(purpose = "Mutation"): a d6 for a named purpose.
PurposeArgs == {Undef, Str("Mutation Roll")}

rollSingleDie(s, purposeArg) ==
  /\ CanDispatch(s)
  /\ h' = [h EXCEPT ![s] =
             [Handler("rollSingleDie", "start",
                      [purpose |-> IF purposeArg = Undef THEN "Mutation" ELSE purposeArg.s])
                EXCEPT !.pc = "evaluate"]]
  /\ ActorUnchanged /\ UNCHANGED <<tabGroups, DCS, tables, sheet>>

\* Variant: the die is rolled again instead of being reported.
afterSingleDieRerolled(hr, roll) ==
  [hr EXCEPT !.pc = "evaluate", !.a = [roll |-> roll] @@ hr.a]

\* Variant: the text shows the opposite face of the die.
afterSingleDieOpposite(hr, roll) ==
  [hr EXCEPT !.pc = "chat",
             !.a = [roll |-> roll,
                    message |-> [kind |-> "single-die", purpose |-> hr.a.purpose,
                                 result |-> DieSides + 1 - roll.total, rolls |-> <<roll>>],
                    ret |-> Num(roll.total)] @@ hr.a]

afterSingleDie(hr, roll) ==
  [hr EXCEPT !.pc = "chat",
             !.a = [roll |-> roll,
                    message |-> [kind |-> "single-die", purpose |-> hr.a.purpose,
                                 result |-> roll.total, rolls |-> <<roll>>],
                    ret |-> Num(roll.total)] @@ hr.a]

\* rollChallengeDice: new Roll("5d6").
DiceCount == 5

\* The faces the five challenge dice show in the model.
ChallengeFaces == {1, DieSides}

ChallengeResults == [1..DiceCount -> ChallengeFaces]

RECURSIVE SumOf(_)
SumOf(seq) == IF seq = <<>> THEN 0 ELSE Head(seq) + SumOf(Tail(seq))

rollChallengeDice(s) ==
  /\ CanDispatch(s)
  /\ h' = [h EXCEPT ![s] =
             [Handler("rollChallengeDice", "start", <<>>) EXCEPT !.pc = "evaluate"]]
  /\ ActorUnchanged /\ UNCHANGED <<tabGroups, DCS, tables, sheet>>

\* await roll.evaluate() of the 5d6 resolves; results are the dice shown.
evaluateChallengeDice(s, results) ==
  /\ h[s].pc = "evaluate" /\ h[s].kind = "rollChallengeDice"
  /\ LET roll == [formula |-> "5d6", total |-> SumOf(results), results |-> results]
     IN h' = [h EXCEPT ![s].pc = "chat",
                       ![s].a = [roll |-> roll,
                                 message |-> [kind |-> "challenge-dice", results |-> results,
                                              rolls |-> <<roll>>],
                                 ret |-> [roll |-> roll, results |-> results]]]
  /\ ActorUnchanged /\ UNCHANGED <<tabGroups, DCS, tables, sheet>>

\* DCSActor.introduceLocation: a public chat message describing the
\* location; with no such location it returns without a word.
introduceLocation(s, locationKey) ==
  /\ CanDispatch(s)
  /\ LET location == LocationAt(locationKey)
         hr == Handler("introduceLocation", "start", [locationKey |-> locationKey])
     IN h' = [h EXCEPT ![s] =
                IF ~Truthy(location) THEN [hr EXCEPT !.pc = "done"]
                ELSE [hr EXCEPT !.pc = "chat",
                                !.a = [message |-> [kind |-> "location-intro",
                                                    label |-> Field(location, "label"),
                                                    judge |-> Field(location, "judge"),
                                                    hazardMin |-> Field(location, "hazardMin"),
                                                    hazardMax |-> Field(location, "hazardMax"),
                                                    whisper |-> <<>>],
                                       ret |-> Undef] @@ hr.a]]
  /\ ActorUnchanged /\ UNCHANGED <<tabGroups, DCS, tables, sheet>>

WarnNote(locationKey) == [level |-> "warn", text |-> "Unknown location: " \o locationKey]

\* game.deathcapsaute.introduceLocation: the same message from the module's
\* API; with no such location it warns and returns.
gameIntroduceLocation(s, locationKey) ==
  /\ CanDispatch(s)
  /\ LET location == LocationAt(locationKey)
         hr == Handler("gameIntroduceLocation", "start", [locationKey |-> locationKey])
     IN h' = [h EXCEPT ![s] =
                IF ~Truthy(location)
                THEN [hr EXCEPT !.notes = Append(@, WarnNote(locationKey)), !.pc = "done"]
                ELSE [hr EXCEPT !.pc = "chat",
                                !.a = [message |-> [kind |-> "location-intro",
                                                    label |-> Field(location, "label"),
                                                    judge |-> Field(location, "judge"),
                                                    hazardMin |-> Field(location, "hazardMin"),
                                                    hazardMax |-> Field(location, "hazardMax")],
                                       ret |-> Undef] @@ hr.a]]
  /\ ActorUnchanged /\ UNCHANGED <<tabGroups, DCS, tables, sheet>>

OneDieKinds == {"rollShroompTable", "rollHazardTable", "rollWildShroomp", "rollSingleDie"}

IntroKinds == {"introduceLocation", "gameIntroduceLocation"}

ChatKinds == OneDieKinds \cup {"rollChallengeDice"} \cup IntroKinds

\* await roll.evaluate() of a 1d6 resolves with a face; the handler runs on
\* to its next await.
evaluate(s, face) ==
  /\ h[s].pc = "evaluate" /\ h[s].kind \in OneDieKinds
  /\ LET roll == Roll("1d6", face)
     IN /\ h' = [h EXCEPT ![s] =
                CASE h[s].kind = "rollShroompTable" -> afterShroompRoll(h[s], roll)
                  [] h[s].kind = "rollHazardTable" -> afterHazardRoll(h[s], roll)
                  [] h[s].kind = "rollWildShroomp" -> afterWildRoll(h[s], roll)
                  [] h[s].kind = "rollSingleDie" -> afterSingleDie(h[s], roll)]
        /\ DCS' = IF h[s].kind = "rollHazardTable" /\ h[s].a.locationKey \in LocationKeys
                  THEN RulesAfterHazardRoll(DCS, h[s].a.locationKey, roll.total, h[s].a.bonus)
                  ELSE DCS
  /\ ActorUnchanged /\ UNCHANGED <<tabGroups, tables, sheet>>

\* await ChatMessage.create(...) resolves; the roll method returns.
createChatMessage(s) ==
  /\ h[s].kind \in ChatKinds
  /\ h[s].pc = "chat"
  /\ h' = [h EXCEPT ![s].msgs = Append(@, h[s].a.message),
                    ![s].ret = h[s].a.ret,
                    ![s].pc = "done"]
  /\ ActorUnchanged /\ UNCHANGED <<tabGroups, DCS, tables, sheet>>

RollNext ==
  \/ \E locationKey \in RollKeys : rollShroompTable(1, locationKey)
  \/ \E locationKey \in RollKeys, bonusArg \in BonusArgs :
       rollHazardTable(1, locationKey, bonusArg)
  \/ rollWildShroomp(1)
  \/ \E purposeArg \in PurposeArgs : rollSingleDie(1, purposeArg)
  \/ rollChallengeDice(1)
  \/ \E locationKey \in RollKeys : introduceLocation(1, locationKey)
  \/ \E locationKey \in RollKeys : gameIntroduceLocation(1, locationKey)
  \/ \E face \in DieFaces : evaluate(1, face)
  \/ \E results \in ChallengeResults : evaluateChallengeDice(1, results)
  \/ createChatMessage(1)

RollSpec == Init /\ [][RollNext]_vars

(***************************************************************************)
(* Roll table helpers: createRollTable and createDefaultTables.            *)
(***************************************************************************)
TableRow(face, text) == [range |-> <<face, face>>, text |-> text]

SHROOMP_TYPES ==
  << TableRow(1, "Spotted Deathcap"), TableRow(2, "Golden Chanterelle"),
     TableRow(3, "Crimson Puffball"), TableRow(4, "Midnight Morel"),
     TableRow(5, "Phosphor Shroom"), TableRow(6, "Royal Truffle") >>

DISH_THEMES ==
  << TableRow(1, "Rustic Comfort"), TableRow(2, "Elegant Presentation"),
     TableRow(3, "Spicy Challenge"), TableRow(4, "Sweet Surprise"),
     TableRow(5, "Traditional Classic"), TableRow(6, "Experimental Fusion") >>

TableCall(name, formula, results) == [name |-> name, formula |-> formula, results |-> results]

\* The two calls createDefaultTables makes, in order.
DefaultCalls ==
  << TableCall("Shroomp Types", "1d6", SHROOMP_TYPES),
     TableCall("Dish Themes", "1d6", DISH_THEMES) >>

\* The calls a macro may make: the default ones, a table of its own, and a
\* default name with other results.
TableCalls ==
  {DefaultCalls[i] : i \in DOMAIN DefaultCalls}
  \cup {TableCall("Hazard Events", "1d6", <<>>),
        TableCall("Shroomp Types", "1d6", DISH_THEMES)}

\* The most roll tables the world holds in the model.
MaxTables == 3

\* Variant: the lookup finds nothing.
getNameMissing(tbls, name) == Undef

\* game.tables.getName(name): the first table of that name, or undefined.
getName(tbls, name) ==
  LET hits == {i \in DOMAIN tbls : tbls[i].name = name}
  IN IF hits = {} THEN Undef
     ELSE Obj(tbls[CHOOSE i \in hits : \A j \in hits : i <= j])

\* The document RollTable.create is asked for.
TableData(call) ==
  [name |-> call.name, formula |-> call.formula,
   results |-> [i \in DOMAIN call.results |->
                  [text |-> call.results[i].text, range |-> call.results[i].range,
                   weight |-> 1]],
   displayRoll |-> TRUE]

InfoNote == [level |-> "info", text |-> "Death Cap Saute roll tables created!"]

\* The handler runs its remaining createRollTable calls up to the next
\* await of RollTable.create: a call whose table exists returns it.
RECURSIVE RunCalls(_, _)
RunCalls(hr, tbls) ==
  IF hr.a.calls = <<>>
  THEN [hr EXCEPT !.pc = "done",
                  !.notes = IF hr.a.notify THEN Append(@, InfoNote) ELSE @]
  ELSE LET existing == getName(tbls, Head(hr.a.calls).name)
       IN IF Truthy(existing)
          THEN RunCalls([hr EXCEPT !.ret = existing, !.a.calls = Tail(@)], tbls)
          ELSE [hr EXCEPT !.pc = "create"]

CanCreate(s) == SheetIdle(s) /\ Len(tables) < MaxTables

TablesOnly == ActorUnchanged /\ UNCHANGED <<tabGroups, DCS, sheet>>

createRollTable(s, call) ==
  /\ CanCreate(s)
  /\ h' = [h EXCEPT ![s] =
             RunCalls(Handler("createRollTable", "start",
                              [calls |-> <<call>>, notify |-> FALSE, created |-> 0]), tables)]
  /\ UNCHANGED tables
  /\ TablesOnly

createDefaultTables(s) ==
  /\ CanCreate(s)
  /\ h' = [h EXCEPT ![s] =
             RunCalls(Handler("createDefaultTables", "start",
                              [calls |-> DefaultCalls, notify |-> TRUE, created |-> 0]),
                      tables)]
  /\ UNCHANGED tables
  /\ TablesOnly

\* await RollTable.create(...) resolves: the table is in the world, the
\* call returns it, and the handler runs on.
tableCreated(s) ==
  /\ h[s].pc = "create"
  /\ LET table == TableData(Head(h[s].a.calls))
         hr == [h[s] EXCEPT !.ret = Obj(table), !.a.calls = Tail(@),
                            !.a.created = @ + 1]
     IN /\ tables' = Append(tables, table)
        /\ h' = [h EXCEPT ![s] = RunCalls(hr, Append(tables, table))]
  /\ TablesOnly

\* Calls made one after another.
TableNext ==
  \/ \E call \in TableCalls : createRollTable(1, call)
  \/ createDefaultTables(1)
  \/ tableCreated(1)

TableSpec == Init /\ [][TableNext]_vars

\* Calls that may overlap: two callers.
TableRaceNext ==
  \E s \in Slots :
    \/ \E call \in TableCalls : createRollTable(s, call)
    \/ createDefaultTables(s)
    \/ tableCreated(s)

TableRaceSpec == Init /\ [][TableRaceNext]_vars

(***************************************************************************)
(* Every handler, with host calls that may fail: an awaited update, dice   *)
(* evaluation or chat creation either resolves or rejects, and a rejection *)
(* ends the handler.                                                       *)
(***************************************************************************)
AwaitingHost(s) == h[s].pc \in {"update", "evaluate", "chat"}

\* The awaited promise rejects: the handler fails at that await.
rejectAwait(s) ==
  /\ AwaitingHost(s)
  /\ h' = [h EXCEPT ![s].pc = "failed"]
  /\ ActorUnchanged /\ UNCHANGED <<tabGroups, DCS, tables, sheet>>

\* The location buttons used here: a location, a missing attribute, an
\* inherited member.
HostKeys == {"shroompLair", "undefined", "constructor"}

\* The kill and revive buttons used here: the first member's, and one
\* with an index past the team.
HostIndexes == {0, teamMembersPerPlayer}

HostNext ==
  \/ \E index \in HostIndexes : onKillMember(1, index)
  \/ \E index \in HostIndexes : callKillTeamMember(1, index)
  \/ \E answer \in DialogAnswers : confirmKill(1, answer)
  \/ announceDeath(1)
  \/ \E index \in HostIndexes : onReviveMember(1, index)
  \/ onToggleChallengeComplete(1, "shroompLair", TRUE)
  \/ ApplyUpdate(1)
  \/ rejectAwait(1)
  \/ \E locationKey \in HostKeys : rollShroompTable(1, locationKey)
  \/ \E locationKey \in HostKeys : rollHazardTable(1, locationKey, Undef)
  \/ rollWildShroomp(1)
  \/ rollSingleDie(1, Undef)
  \/ rollChallengeDice(1)
  \/ \E locationKey \in HostKeys : introduceLocation(1, locationKey)
  \/ \E face \in DieFaces : evaluate(1, face)
  \/ \E results \in ChallengeResults : evaluateChallengeDice(1, results)
  \/ createChatMessage(1)

HostSpec == Init /\ [][HostNext]_vars

\* The host call a handler awaits returns: it resolves or it rejects.
HostReturns(s) ==
  \/ ApplyUpdate(s)
  \/ rejectAwait(s)
  \/ \E answer \in DialogAnswers : confirmKill(s, answer)
  \/ announceDeath(s)
  \/ \E face \in DieFaces : evaluate(s, face)
  \/ \E results \in ChallengeResults : evaluateChallengeDice(s, results)
  \/ createChatMessage(s)

\* HostSpec with every awaited host call eventually returning.
HostLiveSpec == HostSpec /\ WF_vars(HostReturns(1))

(***************************************************************************)
(* The sheet's listeners: which handlers a rendered sheet answers to.  The *)
(* first implementation binds them in activateListeners, the second one    *)
(* declares its click actions in DEFAULT_OPTIONS and binds the checkbox    *)
(* and tab listeners in _onRender.                                         *)
(***************************************************************************)
\* DEFAULT_OPTIONS.actions of the second implementation.
ActionNames ==
  {"rollChallengeDice", "rollShroompTable", "rollHazardTable", "rollWildShroomp",
   "rollSingleDie", "introduceLocation", "killMember", "reviveMember", "editImage"}

\* The change and click listeners _onRender binds.
RenderListeners == {"toggleShroomp", "toggleChallengeComplete", "tabClick"}

\* The listeners activateListeners binds.
ActivatedListeners ==
  (ActionNames \ {"editImage"}) \cup {"toggleShroomp", "toggleChallengeComplete"}

\* Variant: every handler is bound behind the isEditable test.
RegisteredIfEditable(name) ==
  /\ sheet.isEditable
  /\ name \in (IF sheet.version = "v1" THEN ActivatedListeners
               ELSE ActionNames \cup RenderListeners)

\* The open sheet answers to the handler of this name.
Registered(name) ==
  IF sheet.version = "v1"
  THEN sheet.isEditable /\ name \in ActivatedListeners
  ELSE \/ name \in ActionNames
       \/ sheet.isEditable /\ name \in RenderListeners

ImagePaths == {"icons/chef.webp"}

\* #onEditImage: opens the file picker on the actor's image.
onEditImage(s) ==
  /\ CanDispatch(s)
  /\ h' = [h EXCEPT ![s] = Handler("editImage", "pick", [after |-> "done"])]
  /\ ActorUnchanged /\ UNCHANGED <<tabGroups, DCS, tables, sheet>>

\* The picker's callback: await this.actor.update({img: path}).
pickImage(s, path) ==
  /\ h[s].pc = "pick"
  /\ h' = [h EXCEPT ![s] = [AwaitUpdate(h[s], [path |-> <<"img">>, value |-> Str(path)],
                                        "done") EXCEPT !.pc = "updateImg"]]
  /\ ActorUnchanged /\ UNCHANGED <<tabGroups, DCS, tables, sheet>>

\* The host applies the image update: no system data changes, the derived
\* data is prepared again.
applyImageUpdate(s) ==
  /\ h[s].pc = "updateImg"
  /\ totals' = DerivedTotals([challenges |-> challenges, endGame |-> endGame], totals, type)
  /\ prep' = IF DerivedThrows([challenges |-> challenges, endGame |-> endGame], type)
             THEN "threw" ELSE "done"
  /\ updates' = updates + 1
  /\ h' = [h EXCEPT ![s].pc = h[s].a.after]
  /\ UNCHANGED <<type, challenges, endGame, teamMembers, tabGroups, DCS, tables, sheet>>

\* The sheet as a user may have it open: either implementation, editable
\* or not (an observer's sheet is not).
ViewInit ==
  /\ type = "restaurant"
  /\ challenges = NewChallenges
  /\ endGame = NewEndGame
  /\ teamMembers = NewTeam
  /\ totals = DerivedTotals([challenges |-> NewChallenges, endGame |-> NewEndGame],
                            Undef, "restaurant")
  /\ prep = "done"
  /\ updates = 0
  /\ h = [s \in Slots |-> IdleHandler]
  /\ tabGroups = NewTabGroups
  /\ DCS = DCS_CONFIG
  /\ tables = <<>>
  /\ sheet \in [version : SheetVersions, isEditable : BOOLEAN]

\* What the user does on the open sheet, and the host calls returning.
ViewNext ==
  \/ Registered("toggleShroomp") /\ \E checked \in BOOLEAN : onToggleShroomp(1, "shroompLair", checked)
  \/ Registered("toggleChallengeComplete") /\ onToggleChallengeComplete(1, "shroompLair", TRUE)
  \/ Registered("tabClick") /\ \E tabName \in TabNames : onTabClick(1, tabName, "primary")
  \/ Registered("killMember") /\ onKillMember(1, 0)
  \/ Registered("reviveMember") /\ onReviveMember(1, 0)
  \/ Registered("rollChallengeDice") /\ rollChallengeDice(1)
  \/ Registered("rollShroompTable") /\ rollShroompTable(1, "shroompLair")
  \/ Registered("rollHazardTable") /\ rollHazardTable(1, "shroompLair", Undef)
  \/ Registered("rollWildShroomp") /\ rollWildShroomp(1)
  \/ Registered("rollSingleDie") /\ rollSingleDie(1, Undef)
  \/ Registered("introduceLocation") /\ introduceLocation(1, "shroompLair")
  \/ Registered("editImage") /\ onEditImage(1)
  \/ \E path \in ImagePaths : pickImage(1, path)
  \/ applyImageUpdate(1)
  \/ \E answer \in DialogAnswers : confirmKill(1, answer)
  \/ announceDeath(1)
  \/ ApplyUpdate(1)
  \/ \E face \in DieFaces : evaluate(1, face)
  \/ \E results \in ChallengeResults : evaluateChallengeDice(1, results)
  \/ createChatMessage(1)

ViewSpec == ViewInit /\ [][ViewNext]_vars

(***************************************************************************)
(* Properties of _calculateTotals (checked under CalcSpec).                *)
(***************************************************************************)
Prepared == type = "restaurant" /\ prep = "done"

StoredEntries == IF challenges = Undef THEN <<>> ELSE challenges.e

IsCompleted(en) == Field(en.value, "completed") = Bool(TRUE)

\* The stored data without the records whose completed is not true.
CompletedOnly ==
  [challenges |-> Entries(SelectSeq(StoredEntries, IsCompleted)),
   endGame |-> endGame]

\* C2: whatever the fields of the records whose completed is not true, the
\* stored totals are those of the completed records alone.
C2_IgnoresIncomplete ==
  Prepared => totals = calculateTotals(CompletedOnly).totals

\* C2 witness: totals were stored while a record that is not completed
\* carries a score and another record is completed.
C2_Witness ==
  /\ Prepared
  /\ \E i \in DOMAIN StoredEntries :
       ~IsCompleted(StoredEntries[i]) /\ Truthy(Field(StoredEntries[i].value, "flavor"))
  /\ \E i \in DOMAIN StoredEntries : IsCompleted(StoredEntries[i])

ScoreOf(rec, cat) == IF Field(rec, cat).t = "number" THEN Field(rec, cat).n ELSE 0

\* All stored records are objects whose scores are numbers or missing.
NumericRecords ==
  \A i \in DOMAIN StoredEntries :
    /\ StoredEntries[i].value.t = "object"
    /\ \A cat \in {"presentation", "flavor", "originality"} :
         Field(StoredEntries[i].value, cat).t \in {"number", "undefined", "null"}

RECURSIVE CategorySum(_, _)
CategorySum(es, cat) ==
  IF es = <<>> THEN 0
  ELSE (IF IsCompleted(Head(es)) THEN ScoreOf(Head(es).value, cat) ELSE 0)
       + CategorySum(Tail(es), cat)

EarnedCount ==
  Cardinality({i \in DOMAIN StoredEntries :
                 IsCompleted(StoredEntries[i])
                 /\ Field(StoredEntries[i].value, "earnedShroomp") = Bool(TRUE)})

BonusCount ==
  Cardinality({b \in {"presentationBonus", "flavorBonus", "originalityBonus", "wildShroomp"} :
                 endGame # Undef /\ Field(endGame, b) = Bool(TRUE)})

\* The totals are a function of the stored records and flags alone.
ExpectedTotals ==
  [presentation |-> Num(CategorySum(StoredEntries, "presentation")),
   flavor |-> Num(CategorySum(StoredEntries, "flavor")),
   originality |-> Num(CategorySum(StoredEntries, "originality")),
   shroomps |-> Num(EarnedCount + BonusCount)]

ScenarioRecord == Challenge(Bool(TRUE), Bool(TRUE), Num(3), Num(4), Num(2))

\* The scenario: saltyDesert as given, no other completed challenge, no bonus.
Scenario ==
  /\ Len(StoredEntries) >= 1
  /\ StoredEntries[1] = Entry("saltyDesert", ScenarioRecord)
  /\ \A i \in DOMAIN StoredEntries : i > 1 => ~IsCompleted(StoredEntries[i])
  /\ BonusCount = 0

\* C3: the totals are the per-category sums over the completed records
\* (missing fields counting 0) and the shroomps are the earned shroomps of
\* completed records plus the true end-game flags; the saltyDesert scenario
\* yields {3, 4, 2, 1}.
C3_TotalsAreSums ==
  (Prepared /\ NumericRecords) =>
    /\ totals.presentation = Num(CategorySum(StoredEntries, "presentation"))
    /\ totals.flavor = Num(CategorySum(StoredEntries, "flavor"))
    /\ totals.originality = Num(CategorySum(StoredEntries, "originality"))
    /\ totals.shroomps = Num(EarnedCount + BonusCount)
    /\ Scenario =>
         totals = [presentation |-> Num(3), flavor |-> Num(4),
                   originality |-> Num(2), shroomps |-> Num(1)]

\* C3 witness: two completed records with scores, one with an earned
\* shroomp, and a true end-game flag have been totalled.
C3_Witness ==
  /\ Prepared /\ NumericRecords
  /\ Len(StoredEntries) = 2
  /\ \A i \in DOMAIN StoredEntries :
       IsCompleted(StoredEntries[i]) /\ ScoreOf(StoredEntries[i].value, "flavor") > 0
  /\ EarnedCount >= 1 /\ BonusCount >= 1

\* The scenario itself has been totalled.
C3_ScenarioReached == Prepared /\ Scenario

NoChallenges == challenges = Undef \/ challenges = Entries(<<>>)

NoEndGame == endGame = Undef \/ endGame = Obj(<<>>)

\* C4: with no challenge records and no end-game flags the totals are all 0.
C4_EmptyIsZero ==
  (type = "restaurant" /\ prep # "pending" /\ NoChallenges /\ NoEndGame) =>
    /\ prep = "done"
    /\ totals = [presentation |-> Num(0), flavor |-> Num(0),
                 originality |-> Num(0), shroomps |-> Num(0)]

\* C4 witness: the empty data has been prepared.
C4_Witness == Prepared /\ NoChallenges /\ NoEndGame

\* C5: _calculateTotals has no error outcome: on every stored data,
\* including a null record, it finishes and stores a totals value.
C5_NoErrorOutcome ==
  (type = "restaurant" /\ prep # "pending") => (prep = "done" /\ totals # Undef)


(***************************************************************************)
(* Properties of the actor and its sheet (checked under Spec).             *)
(***************************************************************************)
\* C1: for a restaurant, after every operation and the data preparation
\* that follows it, system.totals is the totals of the current challenges
\* and end-game flags.
C1_TotalsAreCurrent ==
  type = "restaurant" => (prep = "done" /\ totals = ExpectedTotals)

\* C1 witness: two updates have been applied and a completed record with a
\* score is counted.
C1_Witness ==
  /\ updates >= 2 /\ h[1].pc = "done"
  /\ totals.flavor # Num(0)

KillHandlers == {s \in Slots : h[s].kind = "kill"}

KillUpdate(members, index) ==
  [path |-> <<"system", "teamMembers">>, value |-> [members EXCEPT ![index].alive = FALSE]]

\* What a kill handler has done, by its position.
KillState(s) ==
  LET hr == h[s] IN
  /\ hr.pc \in {"confirm", "threw"} => (hr.sent = <<>> /\ hr.msgs = <<>>)
  /\ hr.pc \in {"update", "chat"} => hr.a.answer = "yes"
  /\ hr.pc = "update" =>
       (hr.sent = <<KillUpdate(teamMembers, hr.a.index)>> /\ hr.msgs = <<>>)
  /\ (hr.pc \in {"chat", "done"} /\ hr.a.answer = "yes") =>
       /\ Len(hr.sent) = 1
       /\ teamMembers = hr.sent[1].value
       /\ teamMembers[hr.a.index].alive = FALSE
  /\ (hr.pc = "done" /\ hr.a.answer = "yes") =>
       hr.msgs = <<DeathMessage(teamMembers[hr.a.index])>>
  /\ (hr.pc = "done" /\ hr.a.answer # "yes") => (hr.sent = <<>> /\ hr.msgs = <<>>)

\* A step of a kill handler changes the team only by applying its update,
\* and then only the alive flag of its member.
KillStep(s) ==
  (h[s].kind = "kill" /\ h'[s].kind = "kill" /\ h[s].pc # "done" /\ h[s].pc # "threw") =>
     \/ /\ h[s].pc = "update" /\ h[s].a.answer = "yes"
        /\ teamMembers' = [teamMembers EXCEPT ![h[s].a.index].alive = FALSE]
     \/ /\ h[s].pc # "update"
        /\ UNCHANGED <<teamMembers, challenges, endGame, totals, updates>>

\* C10: the kill action changes a member only after the user confirms: on
\* confirm the member at the index gets alive = false and exactly one death
\* notification is emitted; on decline nothing changes, no update is issued
\* and nothing is emitted.
C10_KillNeedsConfirm ==
  /\ [](\A s \in KillHandlers : KillState(s))
  /\ [][\A s \in Slots : KillStep(s)]_vars

\* C10 witness: a confirmed kill has finished.
C10_Witness ==
  /\ h[1].kind = "kill" /\ h[1].pc = "done" /\ h[1].a.answer = "yes"
  /\ ~teamMembers[h[1].a.index].alive

\* A declined kill has finished.
C10_DeclineReached == h[1].kind = "kill" /\ h[1].pc = "done" /\ h[1].a.answer = "no"

(***************************************************************************)
(* Properties of the table rolls (checked under RollSpec).                 *)
(***************************************************************************)
RuleTables ==
  {locations[k].shroompTable : k \in LocationKeys}
  \cup {locations[k].hazardTable : k \in LocationKeys}
  \cup {wildShroompTable}

OneRowPerFace(table) ==
  /\ \A i \in DOMAIN table : table[i].roll \in DieFaces
  /\ \A f \in DieFaces : Cardinality({i \in DOMAIN table : table[i].roll = f}) = 1

RollKinds == {"rollShroompTable", "rollHazardTable", "rollWildShroomp"}

\* The table a roll handler looks its result up in (for a known location).
TableOf(hr) ==
  CASE hr.kind = "rollShroompTable" -> locations[hr.a.locationKey].shroompTable
    [] hr.kind = "rollHazardTable" -> locations[hr.a.locationKey].hazardTable
    [] hr.kind = "rollWildShroomp" -> wildShroompTable

KnownTable(hr) == hr.kind = "rollWildShroomp" \/ hr.a.locationKey \in LocationKeys

Rolled(hr) == hr.kind \in RollKinds /\ hr.pc \in {"chat", "done", "threw"} /\ "roll" \in DOMAIN hr.a

\* C6: every rule table has exactly one row per die face, so the lookup of
\* a rolled face finds exactly one entry and never misses.
C6_OneRowPerFace ==
  /\ \A table \in RuleTables : OneRowPerFace(table)
  /\ \A s \in Slots :
       (Rolled(h[s]) /\ KnownTable(h[s])) =>
         /\ h[s].pc # "threw"
         /\ h[s].a.tableEntry.o.roll = h[s].a.roll.total
         /\ \E i \in DOMAIN TableOf(h[s]) : TableOf(h[s])[i] = h[s].a.tableEntry.o

\* C6 witness: a wild shroomp roll of 6 has been resolved.
C6_Witness ==
  /\ h[1].kind = "rollWildShroomp" /\ h[1].pc = "done"
  /\ h[1].a.roll.total = DieSides /\ h[1].ret.o.name = "Survivor Shroomp"

\* The hazard row of a location for a face.
HazardRowOf(locationKey, face) ==
  CHOOSE r \in {locations[locationKey].hazardTable[i] :
                  i \in DOMAIN locations[locationKey].hazardTable} : r.roll = face

GivenBonus(hr) == IF hr.a.bonusArg = Undef THEN 0 ELSE hr.a.bonusArg.n

\* C7: for a known location rollHazardTable returns the matching row with
\* effectiveValue = value + bonus, the bonus 0 when omitted, never clamped.
C7_EffectiveValue ==
  \A s \in Slots :
    (h[s].kind = "rollHazardTable" /\ h[s].a.locationKey \in LocationKeys) =>
      /\ h[s].pc \in {"evaluate", "chat", "done"}
      /\ h[s].pc = "done" =>
           LET row == HazardRowOf(h[s].a.locationKey, h[s].a.roll.total)
           IN /\ h[s].ret = Obj([effectiveValue |-> row.value + GivenBonus(h[s])] @@ row)
              /\ h[s].msgs[1].mustBeat = row.value + GivenBonus(h[s])

\* C7 witness: a negative bonus took the result below the location's
\* hazardMin.
C7_Witness ==
  /\ h[1].kind = "rollHazardTable" /\ h[1].pc = "done"
  /\ h[1].a.locationKey \in LocationKeys
  /\ h[1].a.bonusArg # Undef /\ h[1].a.bonusArg.n < 0
  /\ h[1].ret.o.effectiveValue < locations[h[1].a.locationKey].hazardMin

\* A result above the location's hazardMax has been returned.
C7_AboveMax ==
  /\ h[1].kind = "rollHazardTable" /\ h[1].pc = "done"
  /\ h[1].a.locationKey \in LocationKeys
  /\ h[1].ret.o.effectiveValue > locations[h[1].a.locationKey].hazardMax

\* C8: a Shroomp Lair hazard roll of 1 returns "The Gelatinous Oubliette",
\* value 7, penalty "Your Team dies & don't present Dish".
C8_GelatinousOubliette ==
  \A s \in Slots :
    (h[s].kind = "rollHazardTable" /\ h[s].a.locationKey = "shroompLair"
       /\ h[s].pc \notin {"evaluate"} /\ h[s].a.roll.total = 1) =>
      /\ h[s].pc \in {"chat", "done"}
      /\ h[s].a.tableEntry.o.name = "The Gelatinous Oubliette"
      /\ h[s].a.tableEntry.o.value = 7
      /\ h[s].a.tableEntry.o.penalty = "Your Team dies & don't present Dish"
      /\ h[s].pc = "done" =>
           /\ h[s].ret.o.name = "The Gelatinous Oubliette"
           /\ h[s].ret.o.value = 7
           /\ h[s].ret.o.penalty = "Your Team dies & don't present Dish"
           /\ h[s].msgs[1].name = "The Gelatinous Oubliette"

\* C8 witness: that roll has been returned.
C8_Witness ==
  /\ h[1].kind = "rollHazardTable" /\ h[1].pc = "done"
  /\ h[1].a.locationKey = "shroompLair" /\ h[1].a.roll.total = 1

\* C9: with a key that is no configured location, rollShroompTable and
\* rollHazardTable report the error and return null, and nothing else
\* happens: no die is rolled, no message is created, nothing is written.
C9_UnknownKeyAborts ==
  \A s \in Slots :
    (h[s].kind \in {"rollShroompTable", "rollHazardTable"}
       /\ h[s].a.locationKey \notin LocationKeys) =>
      /\ h[s].pc = "done"
      /\ h[s].ret = Null
      /\ h[s].notes = <<ErrorNote(h[s].a.locationKey)>>
      /\ h[s].msgs = <<>> /\ h[s].sent = <<>>
      /\ "roll" \notin DOMAIN h[s].a


(***************************************************************************)
(* Kill and revive with any index (checked under Spec).                    *)
(***************************************************************************)
OutOfRange(index) == ~HasMember(teamMembers, index)

\* C11: a kill with an out-of-range index is a silent no-op on both paths,
\* the sheet's handler and DCSActor.killTeamMember: no error is raised, no
\* update is issued, no notification is emitted.
C11_OutOfRangeSilent ==
  \A s \in Slots :
    (h[s].kind \in {"kill", "killTeamMember"} /\ OutOfRange(h[s].a.index)) =>
      /\ h[s].pc # "threw"
      /\ h[s].sent = <<>> /\ h[s].msgs = <<>> /\ h[s].notes = <<>>

\* The part of C11 that holds: DCSActor.killTeamMember with an out-of-range
\* index finishes at once without update or notification.
C11_DirectCallSilent ==
  \A s \in Slots :
    (h[s].kind = "killTeamMember" /\ OutOfRange(h[s].a.index)) =>
      /\ h[s].pc = "done"
      /\ h[s].sent = <<>> /\ h[s].msgs = <<>> /\ h[s].notes = <<>>


\* What a revive handler has done, by its position.
ReviveState(s) ==
  LET hr == h[s] IN
  /\ hr.pc \in {"update", "done"}
  /\ hr.msgs = <<>> /\ hr.notes = <<>>
  /\ OutOfRange(hr.a.index) => (hr.pc = "done" /\ hr.sent = <<>>)
  /\ ~OutOfRange(hr.a.index) =>
       /\ Len(hr.sent) = 1
       /\ hr.sent[1].path = <<"system", "teamMembers">>
       /\ hr.sent[1].value[hr.a.index].alive = TRUE
       /\ hr.pc = "done" =>
            (teamMembers = hr.sent[1].value /\ teamMembers[hr.a.index].alive = TRUE)

\* C12: the revive action sets alive = true for the member at the index at
\* once, with no confirmation and no notification; with an invalid index it
\* issues no update and raises no error.
C12_ReviveDirect ==
  \A s \in Slots : h[s].kind = "revive" => ReviveState(s)

\* C12 witness: the revive of a dead member has issued its update.
C12_Witness ==
  /\ h[1].kind = "revive" /\ h[1].pc = "update"
  /\ ~OutOfRange(h[1].a.index) /\ ~teamMembers[h[1].a.index].alive
  /\ h[1].sent[1].value[h[1].a.index].alive

\* A revive with an invalid index has finished.
C12_InvalidReached ==
  h[1].kind = "revive" /\ h[1].pc = "done" /\ OutOfRange(h[1].a.index)


(***************************************************************************)
(* Kill then revive (checked under RoundTripSpec).                         *)
(***************************************************************************)
Before == h[2].a.before

RoundTripDone(s) ==
  h[s].kind = "revive" /\ h[s].pc = "done" /\ ~OutOfRange(h[s].a.index)

\* C13: killTeamMember(i) followed by the revive of i leaves member i alive
\* and every other member, the name and mutation of member i, and the
\* challenge and end-game data as they were before.
C13_KillReviveRoundTrip ==
  RoundTripDone(1) =>
    /\ DOMAIN teamMembers = DOMAIN Before.teamMembers
    /\ \A j \in DOMAIN teamMembers :
         /\ teamMembers[j].name = Before.teamMembers[j].name
         /\ teamMembers[j].mutation = Before.teamMembers[j].mutation
         /\ teamMembers[j].alive =
              (IF j = h[1].a.index THEN TRUE ELSE Before.teamMembers[j].alive)
    /\ challenges = Before.challenges
    /\ endGame = Before.endGame

\* C13 witness: the round trip has finished on a team with another member
\* dead and a challenge played.
C13_Witness ==
  /\ RoundTripDone(1) /\ updates = 2
  /\ \E j \in DOMAIN teamMembers : j # h[1].a.index /\ ~Before.teamMembers[j].alive
  /\ Before.challenges = PlayedChallenges


(***************************************************************************)
(* Checkbox toggles (checked under Spec).                                  *)
(***************************************************************************)
ToggleField(hr) == IF hr.kind = "toggleShroomp" THEN "earnedShroomp" ELSE "completed"

RecordFields == {"completed", "earnedShroomp", "presentation", "flavor", "originality"}

\* challenges.<k>.<f>, undefined when there is no such record or field.
StoredField(ch, k, f) ==
  IF \E i \in DOMAIN ch.e : ch.e[i].key = k
  THEN Field(ch.e[CHOOSE i \in DOMAIN ch.e : ch.e[i].key = k].value, f)
  ELSE Undef

\* The one write a toggle handler issues.
ToggleState(s) ==
  LET hr == h[s] IN
  /\ hr.pc \in {"update", "done"}
  /\ hr.sent = << [path |-> <<"system", "challenges", hr.a.location, ToggleField(hr)>>,
                   value |-> Bool(hr.a.checked)] >>
  /\ hr.msgs = <<>>

\* The step that applies it changes that field and nothing else.
ToggleStep(s) ==
  (h[s].kind \in {"toggleShroomp", "toggleComplete"} /\ h[s].pc = "update"
     /\ h'[s].pc = "done") =>
    /\ UNCHANGED <<teamMembers, endGame, type>>
    /\ \A k \in LocationAttrs, f \in RecordFields :
         StoredField(challenges', k, f) =
           IF k = h[s].a.location /\ f = ToggleField(h[s])
           THEN Bool(h[s].a.checked) ELSE StoredField(challenges, k, f)
    /\ {challenges'.e[i].key : i \in DOMAIN challenges'.e}
         = {challenges.e[i].key : i \in DOMAIN challenges.e} \cup {h[s].a.location}

\* C14: a checkbox toggle issues one write of the one boolean field
\* system.challenges.<location>.<field>, set to the checkbox state; the
\* other fields of the record, the other records, the team members and the
\* end-game flags are unchanged by it.
C14_ToggleWritesOneField ==
  /\ [](\A s \in Slots :
          h[s].kind \in {"toggleShroomp", "toggleComplete"} => ToggleState(s))
  /\ [][\A s \in Slots : ToggleStep(s)]_vars

\* C14 witness: a toggle has been applied to a record that holds a score.
C14_Witness ==
  /\ h[1].kind = "toggleShroomp" /\ h[1].pc = "done" /\ h[1].a.checked
  /\ StoredField(challenges, h[1].a.location, "earnedShroomp") = Bool(TRUE)
  /\ StoredField(challenges, h[1].a.location, "flavor") = Num(1)


(***************************************************************************)
(* Tabs (checked under TabSpec).                                           *)
(***************************************************************************)
ActiveTabs(tabs) == {i \in DOMAIN tabs : tabs[i].active}

\* C15: in every prepared view model exactly one of team, challenges and
\* totals is marked active, and it is the tab last set for the primary
\* group (initially team); the tab state is never written to the actor.
C15_SingleActiveTab ==
  /\ [](/\ tabGroups.primary \in TabNames
        /\ (\A s \in Slots : h[s].kind = "idle") => tabGroups.primary = "team"
        /\ \A s \in Slots :
             /\ h[s].kind = "tabClick" =>
                  (tabGroups[h[s].a.group] = h[s].a.tab /\ h[s].sent = <<>>)
             /\ h[s].kind = "render" =>
                  /\ Cardinality(ActiveTabs(h[s].ret.tabs)) = 1
                  /\ \A i \in ActiveTabs(h[s].ret.tabs) :
                       /\ h[s].ret.tabs[i].id = tabGroups.primary
                       /\ h[s].ret.tabs[i].cssClass = "active"
                  /\ {h[s].ret.tabs[i].id : i \in DOMAIN h[s].ret.tabs} = TabNames)
  /\ [][(tabGroups' # tabGroups) =>
          /\ h'[1].kind = "tabClick"
          /\ UNCHANGED <<type, challenges, endGame, teamMembers, totals, updates>>]_vars

\* C15 witness: a view model prepared after clicks, with the totals tab
\* active, on an actor that has been updated.
C15_Witness ==
  /\ h[1].kind = "render" /\ updates > 0
  /\ \E i \in DOMAIN h[1].ret.tabs :
       h[1].ret.tabs[i].id = "totals" /\ h[1].ret.tabs[i].active


(***************************************************************************)
(* Order of the steps of a handler (checked under HostSpec).               *)
(***************************************************************************)
KillKinds == {"kill", "killTeamMember"}

RollingKinds == OneDieKinds \cup {"rollChallengeDice"}

\* The death notification exists only once the write has been applied.
NotifiedAfterWrite(s) ==
  LET hr == h[s] IN
  /\ hr.pc \in {"confirm", "update", "chat", "failed", "threw"} => hr.msgs = <<>>
  /\ hr.msgs # <<>> =>
       /\ hr.pc = "done" /\ Len(hr.msgs) = 1 /\ Len(hr.sent) = 1
       /\ teamMembers = hr.sent[1].value
       /\ ~teamMembers[hr.a.index].alive
  /\ hr.sent = <<>> => hr.msgs = <<>>

\* The chat message of a roll exists only once the dice have been evaluated.
ChatAfterEvaluation(s) ==
  LET hr == h[s] IN
  /\ hr.pc \in {"evaluate", "failed", "threw"} => hr.msgs = <<>>
  /\ hr.pc = "evaluate" => "roll" \notin DOMAIN hr.a
  /\ hr.pc = "chat" => ("roll" \in DOMAIN hr.a /\ hr.msgs = <<>>)
  /\ hr.msgs # <<>> => ("roll" \in DOMAIN hr.a /\ hr.msgs = <<hr.a.message>>)

\* A handler reaches its chat step only from the await before it, by that
\* await resolving.
StepsInOrder(s) ==
  /\ (h[s].kind \in KillKinds /\ h'[s].kind = h[s].kind
        /\ h[s].pc # "chat" /\ h'[s].pc = "chat") =>
       /\ h[s].pc = "update"
       /\ updates' = updates + 1
       /\ teamMembers' = h[s].sent[1].value
  /\ (h[s].kind \in RollingKinds /\ h'[s].kind = h[s].kind
        /\ h[s].pc # "chat" /\ h'[s].pc = "chat") =>
       (h[s].pc = "evaluate" /\ h'[s].a.message.rolls = <<h'[s].a.roll>>)
  /\ (h[s].kind \in KillKinds \cup RollingKinds /\ h'[s].kind = h[s].kind
        /\ h'[s].msgs # h[s].msgs /\ h'[s].msgs # <<>>) => h[s].pc = "chat"

\* C16: within a handler each step is awaited before the next: the death
\* notification is emitted only after the write of alive = false has been
\* applied, never when that write was not issued or failed; in every roll
\* the chat message is created only after the dice evaluation has finished.
C16_StepsAwaited ==
  /\ [](\A s \in Slots :
          /\ h[s].kind \in KillKinds => NotifiedAfterWrite(s)
          /\ h[s].kind \in RollingKinds => ChatAfterEvaluation(s))
  /\ [][\A s \in Slots : StepsInOrder(s)]_vars

\* C16 witness: a kill has announced the death after its write.
C16_Witness ==
  /\ h[1].kind \in KillKinds /\ h[1].pc = "done" /\ h[1].msgs # <<>>
  /\ ~teamMembers[h[1].a.index].alive

\* A kill whose write failed has ended without a notification.
C16_WriteFailed ==
  h[1].kind \in KillKinds /\ h[1].pc = "failed" /\ h[1].sent # <<>> /\ h[1].msgs = <<>>

\* A roll has posted its message.
C16_RollPosted == h[1].kind \in RollingKinds /\ h[1].pc = "done" /\ h[1].msgs # <<>>


(***************************************************************************)
(* The chat message of a roll (checked under RollSpec).                    *)
(***************************************************************************)
\* A roll method that has finished after rolling.
RollSucceeded(hr) == hr.kind \in RollingKinds /\ hr.pc = "done" /\ "roll" \in DOMAIN hr.a

\* The message text shows what the roll selected and the caller received.
TextMatchesRoll(hr) ==
  LET m == hr.msgs[1]
      roll == hr.a.roll
  IN CASE hr.kind = "rollShroompTable" ->
            /\ m.result = roll.total /\ hr.ret.o.roll = roll.total
            /\ m.requirement = Field(hr.ret, "requirement")
       [] hr.kind = "rollHazardTable" ->
            /\ m.result = roll.total /\ hr.ret.o.roll = roll.total
            /\ m.name = hr.ret.o.name /\ m.value = hr.ret.o.value
            /\ m.mustBeat = hr.ret.o.effectiveValue
       [] hr.kind = "rollWildShroomp" ->
            /\ m.result = roll.total /\ hr.ret.o.roll = roll.total
            /\ m.name = hr.ret.o.name /\ m.requirement = hr.ret.o.requirement
       [] hr.kind = "rollSingleDie" ->
            m.result = roll.total /\ hr.ret = Num(roll.total)
       [] hr.kind = "rollChallengeDice" ->
            /\ m.results = roll.results /\ hr.ret.results = roll.results
            /\ hr.ret.roll = roll /\ roll.total = SumOf(roll.results)

\* C17: each successful roll operation emits exactly one chat message, and
\* that message carries the roll whose result selected what its text shows
\* and what the caller receives.
C17_OneMessagePerRoll ==
  \A s \in Slots :
    /\ (h[s].kind \in RollingKinds /\ h[s].pc # "done") => h[s].msgs = <<>>
    /\ RollSucceeded(h[s]) =>
         /\ Len(h[s].msgs) = 1
         /\ h[s].msgs[1].rolls = <<h[s].a.roll>>
         /\ TextMatchesRoll(h[s])

\* C17 witness: a single die and its message.
C17_Witness == RollSucceeded(h[1]) /\ h[1].kind = "rollSingleDie" /\ h[1].a.roll.total = 2

\* The challenge dice and their message.
C17_ChallengeDice ==
  RollSucceeded(h[1]) /\ h[1].kind = "rollChallengeDice" /\ h[1].a.roll.total = DiceCount + DieSides - 1


(***************************************************************************)
(* What rolls leave alone (checked under RollSpec).                        *)
(***************************************************************************)
\* The persisted actor of RollSpec is the new restaurant still.
ActorAsCreated ==
  /\ type = "restaurant" /\ updates = 0
  /\ challenges = NewChallenges /\ endGame = NewEndGame /\ teamMembers = NewTeam
  /\ totals = ZeroTotals

HazardRows ==
  UNION {{DCS.locations[k].hazardTable[i] : i \in DOMAIN DCS.locations[k].hazardTable} :
           k \in LocationKeys}

\* C18: the rule tables are never changed, and no roll operation or
\* introduceLocation changes the persisted actor or issues an update; the
\* result of rollHazardTable is a copy carrying effectiveValue, which is
\* not written into the hazard row.
C18_RollsWriteNothing ==
  /\ DCS = DCS_CONFIG
  /\ ActorAsCreated
  /\ \A row \in HazardRows : "effectiveValue" \notin DOMAIN row
  /\ \A s \in Slots :
       h[s].kind \in ChatKinds =>
         /\ h[s].sent = <<>>
         /\ (h[s].kind = "rollHazardTable" /\ h[s].pc = "done" /\ "roll" \in DOMAIN h[s].a) =>
              /\ "effectiveValue" \in DOMAIN h[s].ret.o
              /\ h[s].ret.o.effectiveValue = h[s].a.tableEntry.o.value + h[s].a.bonus
              /\ \E row \in HazardRows :
                   /\ row = h[s].a.tableEntry.o
                   /\ \A f \in DOMAIN row : h[s].ret.o[f] = row[f]

\* C18 witness: a hazard roll with a bonus has returned.
C18_Witness ==
  /\ h[1].kind = "rollHazardTable" /\ h[1].pc = "done" /\ "roll" \in DOMAIN h[1].a
  /\ h[1].a.bonus # 0
  /\ h[1].ret.o.effectiveValue # h[1].ret.o.value

\* An introduction has been posted.
C18_IntroPosted == h[1].kind = "introduceLocation" /\ h[1].pc = "done" /\ h[1].msgs # <<>>


(***************************************************************************)
(* The team (checked under HostSpec).                                      *)
(***************************************************************************)
\* C19: team members are never deleted or added: after any sequence of
\* kills, revives, toggles and rolls the team has the members it was set up
\* with, each with its name and mutation; only the alive flags differ.
C19_TeamKept ==
  /\ DOMAIN teamMembers = DOMAIN NewTeam
  /\ Cardinality(DOMAIN teamMembers) = teamMembersPerPlayer
  /\ \A j \in DOMAIN NewTeam :
       /\ teamMembers[j].name = NewTeam[j].name
       /\ teamMembers[j].mutation = NewTeam[j].mutation
       /\ DOMAIN teamMembers[j] = DOMAIN NewTeam[j]

\* C19 witness: after a revive and a kill one member is dead.
C19_Witness ==
  /\ updates = 2 /\ h[1].kind \in KillKinds /\ h[1].pc = "done"
  /\ \E j \in DOMAIN teamMembers : ~teamMembers[j].alive


(***************************************************************************)
(* Termination of the handlers (checked under HostLiveSpec).               *)
(***************************************************************************)
Suspended(s) == h[s].pc \in {"confirm", "update", "evaluate", "chat"}

Finished(s) == h[s].pc \in {"done", "threw", "failed"}

\* How far a handler has come: each await lies after the one before it.
Progress(pc) ==
  CASE pc \in {"idle", "start"} -> 0
    [] pc \in {"confirm", "evaluate"} -> 1
    [] pc = "update" -> 2
    [] pc = "chat" -> 3
    [] pc \in {"done", "threw", "failed"} -> 4

\* C20: every invoked handler eventually finishes, by completing or by
\* failing, provided each host call it awaits eventually returns; no
\* handler loops, retries or goes back to an earlier await.
C20_HandlersFinish ==
  /\ \A s \in {1} : Suspended(s) ~> Finished(s)
  /\ [][\A s \in {1} : Suspended(s) => Progress(h'[s].pc) > Progress(h[s].pc)]_vars
  /\ [](\A s \in {1} : h[s].kind # "idle" => (Suspended(s) \/ Finished(s)))

\* C20 witness: a confirmed kill has run through its three awaits.
C20_Witness ==
  /\ h[1].kind = "kill" /\ Finished(1) /\ h[1].pc = "done"
  /\ Len(h[1].sent) = 1 /\ Len(h[1].msgs) = 1

\* A handler has failed at an await.
C20_FailedReached == h[1].kind # "idle" /\ h[1].pc = "failed"


(***************************************************************************)
(* Introducing a location (checked under RollSpec).                        *)
(***************************************************************************)
\* C21: introducing a location with a key that is no configured location
\* never posts a message: DCSActor.introduceLocation returns silently and
\* game.deathcapsaute.introduceLocation warns and returns; with a known
\* key each posts exactly one public message.
C21_UnknownIntroPostsNothing ==
  \A s \in Slots :
    h[s].kind \in IntroKinds =>
      /\ h[s].a.locationKey \notin LocationKeys =>
           /\ h[s].pc = "done" /\ h[s].msgs = <<>>
           /\ h[s].notes = IF h[s].kind = "introduceLocation" THEN <<>>
                           ELSE <<WarnNote(h[s].a.locationKey)>>
      /\ h[s].a.locationKey \in LocationKeys =>
           /\ h[s].pc \in {"chat", "done"} /\ h[s].notes = <<>>
           /\ h[s].pc = "done" =>
                /\ Len(h[s].msgs) = 1
                /\ h[s].msgs[1].label = locations[h[s].a.locationKey].label
                /\ "whisper" \in DOMAIN h[s].msgs[1] => h[s].msgs[1].whisper = <<>>

\* The part of C21 that holds: a key that names nothing at all, own or
\* inherited, posts nothing, and a known key posts one public message.
C21_AbsentKeyPostsNothing ==
  \A s \in Slots :
    (h[s].kind \in IntroKinds /\ h[s].a.locationKey \notin InheritedKeys) =>
      /\ h[s].a.locationKey \notin LocationKeys => (h[s].pc = "done" /\ h[s].msgs = <<>>)
      /\ (h[s].a.locationKey \in LocationKeys /\ h[s].pc = "done") =>
           /\ Len(h[s].msgs) = 1
           /\ h[s].msgs[1].label = locations[h[s].a.locationKey].label


(***************************************************************************)
(* Roll tables (checked under TableSpec and TableRaceSpec).                *)
(***************************************************************************)
TablesNamed(name) == {i \in DOMAIN tables : tables[i].name = name}

CallNames == {call.name : call \in TableCalls}

\* C22: createRollTable returns the table of the given name when there is
\* one and creates nothing, so createDefaultTables called any number of
\* times, one call after another, leaves exactly one "Shroomp Types" and
\* one "Dish Themes" table.
C22_CreateIsIdempotent ==
  /\ [](\A name \in CallNames : Cardinality(TablesNamed(name)) <= 1)
  /\ [](\A s \in Slots :
          (h[s].kind = "createDefaultTables" /\ h[s].pc = "done") =>
            /\ Cardinality(TablesNamed("Shroomp Types")) = 1
            /\ Cardinality(TablesNamed("Dish Themes")) = 1
            /\ h[s].notes = <<InfoNote>>)
  /\ [][\A s \in Slots, call \in TableCalls :
          (h'[s] # h[s] /\ h'[s].kind = "createRollTable" /\ SheetIdle(s)
             /\ h'[s].a.created = 0 /\ TablesNamed(call.name) # {}
             /\ h'[s].pc = "done" /\ h'[s].ret.o.name = call.name) =>
            /\ tables' = tables
            /\ h'[s].ret = getName(tables, call.name)]_vars
  /\ [][tables' # tables =>
          \E s \in Slots :
            /\ h[s].pc = "create"
            /\ TablesNamed(Head(h[s].a.calls).name) = {}
            /\ tables' = Append(tables, TableData(Head(h[s].a.calls)))]_vars

\* C22 witness: createDefaultTables has finished without creating
\* anything, both tables being there already.
C22_Witness ==
  /\ h[1].kind = "createDefaultTables" /\ h[1].pc = "done" /\ h[1].a.created = 0
  /\ TablesNamed("Shroomp Types") # {} /\ TablesNamed("Dish Themes") # {}

\* C30: after any createRollTable / createDefaultTables calls, calls that
\* overlap in time included, at most one roll table exists for each name.
C30_OneTablePerName ==
  \A name \in CallNames : Cardinality(TablesNamed(name)) <= 1

(***************************************************************************)
(* The non-editable sheet (checked under ViewSpec).                        *)
(***************************************************************************)
Inert == (\A s \in Slots : h[s] = IdleHandler) /\ updates = 0

\* C23: on a sheet that is not editable no interactive handler is active,
\* so the sheet never runs a handler, never writes to the actor and never
\* emits a chat message; in both sheet implementations.
C23_NonEditableInert == ~sheet.isEditable => Inert

\* C23, first implementation only, and the checkbox and tab listeners of
\* the second: these are bound behind the isEditable test.
C23_GuardedListenersInert ==
  /\ (sheet.version = "v1" /\ ~sheet.isEditable) => Inert
  /\ ~sheet.isEditable => \A s \in Slots : h[s].kind \notin {"toggleShroomp", "toggleComplete", "tabClick"}

(***************************************************************************)
(* The challenge cards (checked under PresentSpec).                        *)
(***************************************************************************)
\* A stored number, a missing field counting as 0.
NumberOrZero(v) == IF v.t = "number" THEN v.n ELSE 0

Rendered(s) == h[s].kind = "render" /\ h[s].pc = "done"

\* C24: _prepareChallengeData returns exactly five entries, in the order
\* saltyDesert, kingsCourt, onionSwamp, meltedMountain, shroompLair,
\* whatever records are stored; each entry's dishTotal is presentation +
\* flavor + originality and its hazardTotal is hazard1 + hazard2, missing
\* fields counting as 0, whatever the completed flag.
C24_FiveCardsWithTotals ==
  \A s \in Slots :
    /\ h[s].kind = "render" => h[s].pc = "done"
    /\ Rendered(s) =>
         LET cards == h[s].ret.challengeData
         IN /\ Len(cards) = 5
            /\ \A i \in 1..5 :
                 LET stored == RecordAt(challenges, LocationOrder[i])
                 IN /\ Field(cards[i], "key") = Str(LocationOrder[i])
                    /\ Field(cards[i], "order") = Num(i)
                    /\ Field(cards[i], "dishTotal") =
                         Num(NumberOrZero(Field(stored, "presentation"))
                             + NumberOrZero(Field(stored, "flavor"))
                             + NumberOrZero(Field(stored, "originality")))
                    /\ Field(cards[i], "hazardTotal") =
                         Num(NumberOrZero(Field(stored, "hazard1"))
                             + NumberOrZero(Field(stored, "hazard2")))

\* C24 witness: the cards of a restaurant whose first record is not
\* completed and has a score and a hazard die, whose second record is
\* stored, and whose other three are missing.
C24_Witness ==
  /\ Rendered(1)
  /\ ~HasKey(challenges.e, "shroompLair")
  /\ HasKey(challenges.e, "kingsCourt")
  /\ ~Truthy(Field(RecordAt(challenges, "saltyDesert"), "completed"))
  /\ Field(h[1].ret.challengeData[1], "dishTotal") = Num(MaxScore + 1)
  /\ Field(h[1].ret.challengeData[1], "hazardTotal") = Num(1)
  /\ Field(h[1].ret.challengeData[5], "dishTotal") = Num(0)

(***************************************************************************)
(* The team counts (checked under TeamSpec).                               *)
(***************************************************************************)
\* The members stored, whatever the form.
StoredMembers(members) ==
  IF members = Undef THEN <<>>
  ELSE IF members.t = "array" THEN members.items
  ELSE [i \in DOMAIN members.e |-> members.e[i].value]

\* The same members stored in the other form.
OtherForm(members) ==
  IF members = Undef THEN Undef
  ELSE IF members.t = "array"
  THEN Entries([i \in DOMAIN members.items |-> Entry(ToString(i - 1), members.items[i])])
  ELSE [t |-> "array", items |-> [i \in DOMAIN members.e |-> members.e[i].value]]

Counted(s) == h[s].kind = "teamCounts" /\ h[s].pc = "done"

\* C26: aliveTeamMembers + deadTeamMembers is the number of team members,
\* isEliminated is true exactly when aliveTeamMembers is 0, the counts are
\* the same for a team stored as an array and as an object keyed by index,
\* and an absent teamMembers counts 0 and 0.
C26_CountsPartitionTeam ==
  \A s \in Slots :
    Counted(s) =>
      LET stored == StoredMembers(teamMembers)
      IN /\ h[s].ret.aliveCount + h[s].ret.deadCount = Len(stored)
         /\ h[s].ret.aliveCount = Cardinality({i \in DOMAIN stored : stored[i].alive})
         /\ h[s].ret.isEliminated <=> (h[s].ret.aliveCount = 0)
         /\ h[s].ret = TeamCounts(OtherForm(teamMembers))
         /\ teamMembers = Undef => h[s].ret.aliveCount = 0 /\ h[s].ret.deadCount = 0

\* C26 witness: the counts of a team stored as an object, two of its three
\* members alive.
C26_Witness ==
  /\ Counted(1)
  /\ teamMembers # Undef /\ teamMembers.t = "object"
  /\ h[1].ret.aliveCount = 2 /\ h[1].ret.deadCount = 1 /\ ~h[1].ret.isEliminated

\* C26 witness: the counts when no teamMembers are stored.
C26_AbsentCounted == Counted(1) /\ teamMembers = Undef /\ h[1].ret.isEliminated

(***************************************************************************)
(* The hazard tables and their announced ranges (checked under RollSpec).  *)
(***************************************************************************)
HazardValues(k) ==
  {DCS.locations[k].hazardTable[i].value : i \in DOMAIN DCS.locations[k].hazardTable}

HazardRange(k) == DCS.locations[k].hazardMin .. DCS.locations[k].hazardMax

HazardRolled(s) ==
  /\ h[s].kind = "rollHazardTable" /\ h[s].pc = "done"
  /\ h[s].a.locationKey \in LocationKeys

\* C25: for every location, every row of its hazard table has a value
\* within [hazardMin, hazardMax], the smallest being hazardMin and the
\* largest hazardMax; so a hazard roll with bonus 0 returns an
\* effectiveValue inside the announced range.
C25_HazardValuesInRange ==
  /\ \A k \in LocationKeys :
       /\ HazardValues(k) \subseteq HazardRange(k)
       /\ DCS.locations[k].hazardMin \in HazardValues(k)
       /\ DCS.locations[k].hazardMax \in HazardValues(k)
  /\ \A s \in Slots :
       (HazardRolled(s) /\ h[s].a.bonus = 0) =>
         h[s].ret.o.effectiveValue \in HazardRange(h[s].a.locationKey)

\* C25 witness: a hazard roll without bonus at the last location has
\* returned the location's largest value.
C25_Witness ==
  /\ HazardRolled(1) /\ h[1].a.bonus = 0 /\ h[1].a.locationKey = "shroompLair"
  /\ h[1].ret.o.effectiveValue = DCS.locations["shroompLair"].hazardMax
  /\ h[1].a.roll.total = DieSides

(***************************************************************************)
(* Overlapping team operations (checked under TeamRaceSpec).               *)
(***************************************************************************)
\* The operation of slot s has written the team and is complete.
TeamOpDone(s) ==
  /\ h[s].kind \in {"kill", "killTeamMember", "revive"}
  /\ h[s].pc = "done" /\ h[s].sent # <<>>

\* C27: no update is lost between team operations on different members:
\* when a kill of member i and a revive or kill of another member j have
\* both started before the first write was applied, after both are
\* complete member i is dead and member j is as its own operation set it.
C27_NoLostTeamUpdate ==
  \A s, t \in Slots :
    (/\ s # t /\ TeamOpDone(s) /\ TeamOpDone(t)
     /\ h[s].kind \in {"kill", "killTeamMember"}
     /\ h[s].a.index # h[t].a.index) =>
      /\ ~teamMembers[h[s].a.index].alive
      /\ teamMembers[h[t].a.index].alive = (h[t].kind = "revive")

\* C27 for one operation alone: the member it names is as the operation
\* set it once its write is applied and nothing else is pending.
C27_SingleOperationKept ==
  \A s, t \in Slots :
    (s # t /\ TeamOpDone(s) /\ h[t].pc = "idle") =>
      teamMembers[h[s].a.index].alive = (h[s].kind = "revive")

(***************************************************************************)
(* Overlapping checkbox toggles (checked under ToggleRaceSpec).            *)
(***************************************************************************)
Toggled(s) == h[s].kind \in {"toggleShroomp", "toggleComplete"} /\ h[s].pc = "done"

\* The field a toggle handler writes.
ToggleTarget(s) == <<h[s].a.location, ToggleField(h[s])>>

\* C28: checkbox toggles that overlap do not interfere: for toggles of
\* different fields, under any interleaving of their writes, once they are
\* complete each toggled field holds the value its own toggle wrote and no
\* other field has changed.
C28_TogglesIndependent ==
  \A s, t \in Slots :
    (s # t /\ Toggled(s)
       /\ (h[t].pc = "idle" \/ ToggleTarget(s) # ToggleTarget(t))) =>
      /\ StoredField(challenges, h[s].a.location, ToggleField(h[s])) = Bool(h[s].a.checked)
      /\ Toggled(t) =>
           StoredField(challenges, h[t].a.location, ToggleField(h[t])) = Bool(h[t].a.checked)
      /\ \A k \in LocationAttrs, f \in RecordFields :
           (<<k, f>> # ToggleTarget(s) /\ ~(Toggled(t) /\ <<k, f>> = ToggleTarget(t))) =>
             StoredField(challenges, k, f) = StoredField(NewChallenges, k, f)
      /\ teamMembers = NewTeam /\ endGame = NewEndGame

\* C28 witness: the two checkboxes of one location were toggled by two
\* handlers that were both waiting for their writes, and both hold.
C28_Witness ==
  /\ Toggled(1) /\ Toggled(2)
  /\ h[1].kind = "toggleShroomp" /\ h[2].kind = "toggleComplete"
  /\ h[1].a.location = "kingsCourt" /\ h[2].a.location = "kingsCourt"
  /\ h[1].a.checked /\ h[2].a.checked
  /\ StoredField(challenges, "kingsCourt", "earnedShroomp") = Bool(TRUE)
  /\ StoredField(challenges, "kingsCourt", "completed") = Bool(TRUE)
  /\ updates = 2

(***************************************************************************)
(* Totals and challenge cards (checked under PlaySpec).                    *)
(***************************************************************************)
\* The sum of dishTotal over the cards whose completed flag is true.
RECURSIVE CompletedDishTotal(_, _)
CompletedDishTotal(cards, i) ==
  IF i > Len(cards) THEN 0
  ELSE (IF Truthy(Field(cards[i], "completed")) THEN Field(cards[i], "dishTotal").n ELSE 0)
       + CompletedDishTotal(cards, i + 1)

C29_StrayShroompCounted ==
  /\ Rendered(1)
  /\ challenges = MergeChallenge(MergeChallenge(NewChallenges, "undefined", "completed",
                                                Bool(TRUE)),
                                 "undefined", "earnedShroomp", Bool(TRUE))
  /\ totals.shroomps = Num(1)

=============================================================================
